---- MODULE Spec2Model ----
(***************************************************************************)
(* Model of ProposalSender.send_proposals and BrowserManager.reconnect of  *)
(* src/main_updated.py: the main loop of the automation engine, its        *)
(* marker-based scan, the pending-batch / scroll scheduling and the        *)
(* reconnect supervisor.  The page, the session provider and the modal     *)
(* workflow are the environment: their outcomes are drawn with \E.         *)
(* The engine keeps no identity of the page's buttons (the markers live in *)
(* the DOM), and the page returns them in an order of its own, so the page *)
(* is the bag of its buttons' marker attributes.                           *)
(***************************************************************************)
EXTENDS Integers, Sequences, FiniteSets, TLC

(* ---------------- bounds of the model ---------------- *)
\* number of target elements the page can ever show
NElems == 4
\* largest max_count a run is started with
MaxTarget == 4
\* self.max_scrolls is 100 in the source (main_updated.py:599); the loop
\* uses it only as the limit of total_scrolls, so it is scaled down here
max_scrolls == 2
\* deepest ancestor chain of a button that the page offers
MaxDepth == 10
\* largest number of options in the dropdown of the template term
MaxOptions == 2

(* ---------------- program constants ---------------- *)
max_consecutive_errors == 3
max_retries == 3
max_attempts == 10

\* the targets a run is started with: none, the 2 of the end-to-end scenario,
\* and the largest
MaxCounts == {0, 2, MaxTarget}

Max(a, b) == IF a >= b THEN a ELSE b

(* ---------------- buttons and their markers ---------------- *)
\* the two marker attributes of one button: data-impact-rpa-counted and
\* data-impact-rpa-clicked are 'true' or not
Buttons == [counted : BOOLEAN, clicked : BOOLEAN]
Unmarked == [counted |-> FALSE, clicked |-> FALSE]

\* a bag of buttons: how many buttons carry each pair of attributes
EmptyBag == [b \in Buttons |-> 0]
BagAdd(bag, b) == [bag EXCEPT ![b] = @ + 1]
BagRemove(bag, b) == [bag EXCEPT ![b] = @ - 1]
BagIn(b, bag) == bag[b] > 0
B00 == [counted |-> FALSE, clicked |-> FALSE]
B10 == [counted |-> TRUE, clicked |-> FALSE]
B01 == [counted |-> FALSE, clicked |-> TRUE]
B11 == [counted |-> TRUE, clicked |-> TRUE]
BagSize(bag) == bag[B00] + bag[B10] + bag[B01] + bag[B11]
MkBag(n00, n10, n01, n11) ==
    [b \in Buttons |-> IF b = B00 THEN n00 ELSE IF b = B10 THEN n10
                       ELSE IF b = B01 THEN n01 ELSE n11]
\* the bags of some of the buttons of bag
SubBags(bag) ==
    {MkBag(n[1], n[2], n[3], n[4]) :
        n \in (0..bag[B00]) \X (0..bag[B10]) \X (0..bag[B01]) \X (0..bag[B11])}

VARIABLES
    pc,                        \* position of send_proposals
    max_count,                 \* argument of send_proposals
    clicked_count,
    total_scrolls,
    consecutive_errors,
    pending_batch_buttons,
    total_detected_buttons,
    page,                      \* bag of all buttons of the page with their markers
    available_buttons,         \* the buttons the for loop has still to walk
    newly_counted,
    should_scroll_after_batch,
    tab,                       \* self.tab of BrowserManager, the session in use
    rc,                        \* what the call of reconnect did (while it returns)
    exit,                      \* the way send_proposals left the loop
    pending_at_scan,           \* pending_batch_buttons when the scan of this iteration started
    batch_size,                \* number of available buttons the scan of this iteration found
    batch_clicks,              \* successful clicks of this iteration
    batch_marks_ok,            \* no marker write of this iteration has failed
    notifications,             \* the calls of the notification sink, in order
    last_error,                \* the failure the last step handled, "none" if none
    all_succeeded,             \* every scan has returned all the buttons of the page,
                               \* every click has gone through, every modal has completed
    no_control_seen,           \* every scan has returned no button, every scroll has succeeded
    modal,                     \* the modal workflow of the item in hand
    is_running,                \* WorkerThread.is_running of src/gui.py
    signals,                   \* the signals the worker has emitted, in order
    to_walk,                   \* buttons the for loop of the worker has still to walk
    attempt,                   \* attempts of the click loop of the worker so far
    stopped_at,                \* where the worker was when stop() was called
    issued_on,                 \* the session the last page operation of the worker went to
    scan_out,                  \* what the element helper did in the scan in hand
    templates,                 \* data['templates'] of the template store, as ids
    active_template_id,        \* data['active_template_id'], 0 for None
    stable                     \* no scan has missed a button of the page, and
                               \* no marker write has failed

vars == <<pc, max_count, clicked_count, total_scrolls, consecutive_errors,
          pending_batch_buttons, total_detected_buttons, page,
          available_buttons, newly_counted, should_scroll_after_batch, tab,
          rc, exit, pending_at_scan, batch_clicks, batch_size,
          batch_marks_ok, notifications, last_error, all_succeeded,
          no_control_seen, modal, is_running, signals, to_walk, attempt,
          stopped_at, issued_on, scan_out, templates, active_template_id,
          stable>>

\* the variables of the worker thread of src/gui.py
gui_vars == <<is_running, signals, to_walk, attempt, stopped_at, issued_on>>

\* the template store of TemplateManager
store_vars == <<templates, active_template_id>>

\* self._default_data: {"templates": [], "active_template_id": None}
NoStore ==
    /\ templates = <<>>
    /\ active_template_id = 0

\* no worker thread is there
NoWorker ==
    /\ is_running = TRUE
    /\ signals = <<>>
    /\ to_walk = 0
    /\ attempt = 0
    /\ stopped_at = "none"
    /\ issued_on = -1

NoRc == [called |-> FALSE]

(* ---------------- the notification sink ---------------- *)
\* NotificationService().send_notification(title="Impact RPA 完成",
\*     message=f"已成功发送 {clicked_count} 个 Proposal", notification_type="success")
send_notification(ns, count) ==
    Append(ns, [kind |-> "success", count |-> count])

\* NotificationService().send(NotificationPayload(
\*     message=f"发送完成，共发送 {count} 个")) of _start_send_proposals
send(ns, count) ==
    Append(ns, [kind |-> "completed", count |-> count])

(* ---------------- BrowserManager.reconnect ---------------- *)
AttemptOutcomes == {"ok", "raises"}

\* a handle different from the one it replaces
Fresh(h) == 1 - h

RECURSIVE ReconnectFrom_short(_, _, _)
\* reconnect with a loop that is one attempt short
ReconnectFrom_short(i, t, outs) ==
    IF i >= max_retries
    THEN [ok |-> FALSE, tab |-> t, attempts |-> i - 1]
    ELSE IF outs[i] = "ok"
    THEN [ok |-> TRUE, tab |-> Fresh(t), attempts |-> i]
    ELSE ReconnectFrom_short(i + 1, t, outs)

RECURSIVE ReconnectFrom(_, _, _)
\* the for loop of reconnect from attempt i on (i counts from 1); outs[i] is
\* what Chromium() / latest_tab do at attempt i
ReconnectFrom(i, t, outs) ==
    IF i > max_retries
    THEN [ok |-> FALSE, tab |-> t, attempts |-> i - 1]
    ELSE IF outs[i] = "ok"
    THEN [ok |-> TRUE, tab |-> Fresh(t), attempts |-> i]
    ELSE ReconnectFrom(i + 1, t, outs)

reconnect(t, outs) == ReconnectFrom(1, t, outs)

(* ---------------- ProposalSender._mark_button_state ---------------- *)
\* a marker write that rewrites the button's markers instead of adding one
_mark_button_state_clears(b, attr, ok) ==
    IF attr = "counted"
    THEN IF b.counted THEN [ok |-> TRUE, btn |-> b]
         ELSE IF ok THEN [ok |-> TRUE, btn |-> [b EXCEPT !.counted = TRUE]]
         ELSE [ok |-> FALSE, btn |-> b]
    ELSE IF b.clicked THEN [ok |-> TRUE, btn |-> b]
         ELSE IF ok THEN [ok |-> TRUE, btn |-> [counted |-> FALSE, clicked |-> TRUE]]
         ELSE [ok |-> FALSE, btn |-> b]

\* b: the button, attr: "counted" or "clicked", ok: whether a write (direct or
\* through the script fallback) goes through
_mark_button_state(b, attr, ok) ==
    IF attr = "counted"
    THEN IF b.counted THEN [ok |-> TRUE, btn |-> b]
         ELSE IF ok THEN [ok |-> TRUE, btn |-> [b EXCEPT !.counted = TRUE]]
         ELSE [ok |-> FALSE, btn |-> b]
    ELSE IF b.clicked THEN [ok |-> TRUE, btn |-> b]
         ELSE IF ok THEN [ok |-> TRUE, btn |-> [b EXCEPT !.clicked = TRUE]]
         ELSE [ok |-> FALSE, btn |-> b]

(* ---------------- the scan of send_proposals ---------------- *)
\* a scan that leaves no button out
IsClicked_never(b) == FALSE

\* btn.attr(self.clicked_attr) == 'true': the button is left out
IsClicked(b) == b.clicked
\* a scan that counts whatever it sees
NeedsCount_always(b) == TRUE

\* btn.attr(self.counted_attr) != 'true': the button has to be counted
NeedsCount(b) == ~b.counted

\* lines 687-695 for one button; st is the state of the scan so far
ScanButton(st, b, writeOk) ==
    IF IsClicked(b) THEN st
    ELSE IF NeedsCount(b)
    THEN LET m == _mark_button_state(b, "counted", writeOk) IN
         IF m.ok
         THEN [st EXCEPT !.page = BagAdd(BagRemove(@, b), m.btn),
                         !.pending = @ + 1,
                         !.detected = @ + 1,
                         !.newly = @ + 1,
                         !.available = BagAdd(@, m.btn)]
         ELSE [st EXCEPT !.page = BagAdd(BagRemove(@, b), m.btn),
                         !.available = BagAdd(@, m.btn)]
    ELSE [st EXCEPT !.available = BagAdd(@, b)]

RECURSIVE ScanLoop(_, _, _)
\* the marking loop over the buttons vis that find_elements returned; the
\* first wfail marker writes fail
ScanLoop(vis, st, wfail) ==
    IF BagSize(vis) = 0 THEN st
    ELSE LET b == CHOOSE x \in Buttons : BagIn(x, vis)
             writes == ~IsClicked(b) /\ NeedsCount(b)
         IN  ScanLoop(BagRemove(vis, b),
                      ScanButton(st, b, wfail = 0),
                      IF writes /\ wfail > 0 THEN wfail - 1 ELSE wfail)

ScanResult(pg, pending, detected, vis, wfail) ==
    ScanLoop(vis,
             [page |-> pg, pending |-> pending, detected |-> detected,
              newly |-> 0, available |-> EmptyBag],
             wfail)

(* ---------------- guards of the main loop ---------------- *)
\* a loop that allows one scroll more
LoopCond_more(scrolls) == scrolls <= max_scrolls

LoopCond(scrolls) == scrolls < max_scrolls

\* a reconnect check that is one error late
ShouldReconnect_late(errs) == errs > max_consecutive_errors

ShouldReconnect(errs) == errs >= max_consecutive_errors

\* target checks that are off by one, late and early
TargetReached_off(c, m) == c > m
TargetReached_early(c, m) == c + 1 >= m

TargetReached(c, m) == c >= m

DecPending(p) == IF p > 0 THEN Max(p - 1, 0) ELSE p

\* a scroll flag raised one button early
FlagScroll_early(p) == p <= 1

FlagScroll(p) == p = 0

\* lines 705-717: no available button
NoButtonsStep(p) == IF p <= 0 THEN "scroll" ELSE "top"

\* a loop that scrolls after every batch
AfterBatchStep_always(flag, p) == "scroll"

\* lines 807-822: what the loop does after a batch, scroll or go on scanning
AfterBatchStep(flag, p) ==
    IF flag THEN "scroll" ELSE IF p > 0 THEN "top" ELSE "scroll"

\* a loop that goes on scanning after a failed reconnect
ReconnectFailedPc_continue == "scan"

\* where the loop goes when reconnect has returned False (break, line 665)
ReconnectFailedPc == "done"

(* ---------------- the click-and-climb loop ---------------- *)
SoftKinds == {"nosuch", "other"}

IsTransient(k) == k = "transient"
\* the classification of the per-button handler (line 794) also takes 'no such'
IsPageGone(k) == k \in {"transient", "nosuch"}

RECURSIVE ClickLoop(_, _, _, _, _)
\* for retry_idx in range(10): anc is the number of ancestors left (parent is
\* None when 0), the first nfail attempts fail with softKind, the attempt after
\* them ends as final ("ok" or "transient")
ClickLoop(retry_idx, anc, nfail, softKind, final) ==
    IF retry_idx >= max_attempts
    THEN [result |-> "gave_up", attempts |-> retry_idx]
    ELSE IF anc = 0
    THEN [result |-> "gave_up", attempts |-> retry_idx]
    ELSE IF retry_idx < nfail
    THEN IF retry_idx < max_attempts - 1
         THEN ClickLoop(retry_idx + 1, anc - 1, nfail, softKind, final)
         ELSE [result |-> softKind, attempts |-> retry_idx + 1]
    ELSE IF final = "ok"
    THEN [result |-> "clicked", attempts |-> retry_idx + 1]
    ELSE [result |-> "transient", attempts |-> retry_idx + 1]

Depths == {0, 1, MaxDepth}
FailCounts == {0, 1, max_attempts - 1, max_attempts}
\* what the loop can end as for one button
ClickResults ==
    {ClickLoop(0, anc, nfail, softKind, final).result :
        anc \in Depths, nfail \in FailCounts, softKind \in SoftKinds,
        final \in {"ok", "transient"}}
ModalOutcomes == {"done", "item_aborted", "transient"}

(* ---------------- texts of the modal workflow ---------------- *)
\* A text is a sequence of symbols: words (no word is part of another), the
\* space "sp" and a parenthesised count "(N)" such as "(12)".
\* str.lower() on one symbol
Lower(w) ==
    CASE w = "Public" -> "public"
      [] w = "PUBLIC" -> "public"
      [] w = "Terms" -> "terms"
      [] w = "Ulanzi" -> "ulanzi"
      [] w = "Context" -> "context"
      [] w = "Commission" -> "commission"
      [] w = "Tier" -> "tier"
      [] w = "Ads" -> "ads"
      [] w = "ADS" -> "ads"
      [] w = "Video" -> "video"
      [] OTHER -> w

LowerText(t) == [i \in 1..Len(t) |-> Lower(t[i])]

RECURSIVE RStrip(_)
RStrip(t) ==
    IF t # <<>> /\ t[Len(t)] = "sp" THEN RStrip(SubSeq(t, 1, Len(t) - 1))
    ELSE t

RECURSIVE LStrip(_)
LStrip(t) == IF t # <<>> /\ t[1] = "sp" THEN LStrip(Tail(t)) ELSE t

\* str.strip()
Strip(t) == LStrip(RStrip(t))

\* re.sub(r'\s*\(\d+\)\s*$', '', t): a count at the end of the text goes, with
\* the spaces around it; a text that does not end in a count is left as it is
StripCount(t) ==
    LET u == RStrip(t) IN
    IF u # <<>> /\ u[Len(u)] = "(N)"
    THEN RStrip(SubSeq(u, 1, Len(u) - 1))
    ELSE t

RECURSIVE Collapse(_)
\* re.sub(r'\s+', ' ', t)
Collapse(t) ==
    IF Len(t) < 2 THEN t
    ELSE IF t[1] = "sp" /\ t[2] = "sp" THEN Collapse(Tail(t))
    ELSE <<t[1]>> \o Collapse(Tail(t))

\* t.replace(" ", "")
RemoveSpaces(t) == SelectSeq(t, LAMBDA x : x # "sp")

\* a in b, for strings
Contains(a, b) ==
    \E i \in 0..(Len(b) - Len(a)) : SubSeq(b, i + 1, i + Len(a)) = a

\* 'disconnect' in msg or 'context' in msg or 'target closed' in msg, for a
\* message that quotes the text t
HasMarker(t) == \E i \in 1..Len(t) : Lower(t[i]) = "context"

(* ---------------- ProposalSender._select_template_term ---------------- *)
DefaultTerm == <<"Commission", "sp", "Tier", "sp", "Terms">>

\* lines 904-906 and 995-996: the normalized form of a term or an option
NormTerm(t) == Collapse(LowerText(Strip(StripCount(t))))

\* desired = (term_text or "Commission Tier Terms").strip()
Desired(term) == Strip(IF term = <<>> THEN DefaultTerm ELSE term)

\* line 1005: n == desired_norm or desired_norm in n or n in desired_norm
IsMatch(n, d) == n = d \/ Contains(d, n) \/ Contains(n, d)

\* the indices of the options that match, in the order of the dropdown
MatchIndices(term, options) ==
    SelectSeq([i \in 1..Len(options) |-> i],
              LAMBDA i : IsMatch(NormTerm(options[i]), NormTerm(Desired(term))))

\* a dropdown step that asks the operator even for a single match
TermBranch_ask(nmatches, noptions) ==
    IF nmatches >= 1 THEN "ask_matches"
    ELSE IF noptions > 0 THEN "ask_all"
    ELSE "fallback"

\* lines 1006, 1011, 1025: what the step does with the options it has read
TermBranch(nmatches, noptions) ==
    IF nmatches = 1 THEN "auto"
    ELSE IF nmatches > 1 THEN "ask_matches"
    ELSE IF noptions > 0 THEN "ask_all"
    ELSE "fallback"

\* the number of entries that the prompt of the step lists
PromptSize(term, options) ==
    LET b == TermBranch(Len(MatchIndices(term, options)), Len(options)) IN
    IF b = "ask_matches" THEN Len(MatchIndices(term, options))
    ELSE IF b = "ask_all" THEN Len(options)
    ELSE 0

\* lines 1052-1064: the first div.text-ellipsis node whose normalized text is
\* the desired one or contains it (0 if none); nodes without text are skipped
FirstEllipsis(term, options) ==
    LET d == NormTerm(Desired(term))
        hit(i) == /\ options[i] # <<>>
                  /\ (NormTerm(options[i]) = d \/ Contains(d, NormTerm(options[i])))
        hits == {i \in 1..Len(options) : hit(i)}
    IN  IF hits = {} THEN 0 ELSE CHOOSE i \in hits : \A j \in hits : i <= j

\* lines 1042-1067: the lookups after the dropdown; by_text: an element with
\* the text of desired is found, ellipsis: the option nodes are found
TermFallback(term, options, by_text, ellipsis, prompted, answer) ==
    IF by_text
    THEN [ok |-> TRUE, via |-> "text", selected |-> 0,
          prompted |-> prompted, answer |-> answer]
    ELSE IF ellipsis /\ FirstEllipsis(term, options) # 0
    THEN [ok |-> TRUE, via |-> "ellipsis",
          selected |-> FirstEllipsis(term, options),
          prompted |-> prompted, answer |-> answer]
    ELSE [ok |-> FALSE, via |-> "none", selected |-> 0,
          prompted |-> prompted, answer |-> answer]

\* the whole step; env is what the page and the operator answer:
\* native: what the <select> does ("absent", "selects", "fails"),
\* dropdown: a uicl-dropdown is open, answer: the number the operator enters
\* (0: none), by_text and ellipsis as above
_select_template_term(term, options, env) ==
    IF env.native = "selects"
    THEN [ok |-> TRUE, via |-> "native", selected |-> 0,
          prompted |-> FALSE, answer |-> 0]
    ELSE IF ~env.dropdown
    THEN TermFallback(term, options, env.by_text, env.ellipsis, FALSE, 0)
    ELSE LET matches == MatchIndices(term, options)
             b == TermBranch(Len(matches), Len(options))
         IN  IF b = "auto"
             THEN [ok |-> TRUE, via |-> "match", selected |-> matches[1],
                   prompted |-> FALSE, answer |-> 0]
             ELSE IF b = "ask_matches" /\ env.answer > 0
             THEN [ok |-> TRUE, via |-> "operator",
                   selected |-> matches[env.answer],
                   prompted |-> TRUE, answer |-> env.answer]
             ELSE IF b = "ask_all" /\ env.answer > 0
             THEN [ok |-> TRUE, via |-> "operator", selected |-> env.answer,
                   prompted |-> TRUE, answer |-> env.answer]
             ELSE TermFallback(term, options, env.by_text, env.ellipsis,
                               b # "fallback", 0)

(* ---------------- ProposalSender._input_tag_and_select ---------------- *)
\* search_text = selected_tab.replace(" ", "")
SearchText(selected_tab) == RemoveSpaces(selected_tab)

\* lines 1099-1102: option_text = option_div.text.strip(), then the count and
\* the spaces are removed
OptionCategory(suggestion) == RemoveSpaces(StripCount(Strip(suggestion)))

\* a check that lets every suggestion through
TagMismatch_never(selected_tab, suggestion) == FALSE

\* line 1104: search_text.lower() != option_category.lower()
TagMismatch(selected_tab, suggestion) ==
    LowerText(SearchText(selected_tab)) # LowerText(OptionCategory(suggestion))

(* ---------------- ProposalSender._handle_proposal_modal ---------------- *)
\* an error that a page operation of a step raises: none, one whose message
\* carries a marker, or another one
Faults == {"none", "transient", "other"}

\* lines 893-899: an error with a marker in its message is raised again, any
\* other makes the workflow return False
HandleException(has_marker) ==
    IF has_marker THEN "transient" ELSE "item_aborted"

\* no modal workflow is under way
NoModal == [step |-> "idle"]

\* _click_understand_button has not run
NoAck == [in_iframe |-> FALSE, in_page |-> FALSE, out |-> "none",
          clicked |-> FALSE]

\* the workflow of one item at its start
NewModal(term, options, selected_tab, suggestion) ==
    [step |-> "AwaitSurface", term |-> term, options |-> options,
     tab |-> selected_tab, suggestion |-> suggestion, steps |-> <<>>,
     failed |-> {}, transient_in |-> {}, read |-> FALSE, via |-> "none",
     selected |-> 0, prompted |-> FALSE, answer |-> 0, compared |-> FALSE,
     suggestion_clicked |-> FALSE,
     submitted |-> FALSE, ack |-> NoAck, result |-> "none"]

\* a loop that counts every item that was not completed as an error
AfterModal_counts(modal_out, errs, rest) ==
    IF modal_out # "done"
    THEN [errs |-> errs + 1, pc |-> "after", available |-> EmptyBag]
    ELSE [errs |-> errs, pc |-> "batch", available |-> rest]

\* lines 780-802: what the loop does when the workflow has returned or raised
AfterModal(modal_out, errs, rest) ==
    IF IsTransient(modal_out)
    THEN [errs |-> errs + 1, pc |-> "after", available |-> EmptyBag]
    ELSE [errs |-> errs, pc |-> "batch", available |-> rest]

(* ---------------- initial state ---------------- *)
Init ==
    /\ NoWorker
    /\ NoStore
    /\ scan_out = "none"
    /\ stable = TRUE
    /\ pc = "top"
    /\ max_count \in MaxCounts
    /\ clicked_count = 0
    /\ total_scrolls = 0
    /\ consecutive_errors = 0
    /\ pending_batch_buttons = 0
    /\ total_detected_buttons = 0
    /\ page = [EmptyBag EXCEPT ![Unmarked] = NElems]
    /\ available_buttons = EmptyBag
    /\ newly_counted = 0
    /\ should_scroll_after_batch = FALSE
    /\ tab = 0
    /\ rc = NoRc
    /\ exit = "none"
    /\ pending_at_scan = 0
    /\ batch_clicks = 0
    /\ batch_size = 0
    /\ batch_marks_ok = TRUE
    /\ notifications = <<>>
    /\ last_error = "none"
    /\ all_succeeded = TRUE
    /\ no_control_seen = TRUE
    /\ modal = NoModal

(* ---------------- the main loop ---------------- *)
\* while total_scrolls < self.max_scrolls, and the reconnect check
LoopHead ==
    /\ UNCHANGED gui_vars
    /\ UNCHANGED store_vars
    /\ UNCHANGED <<scan_out, stable>>
    /\ pc = "top"
    /\ IF ~LoopCond(total_scrolls)
       THEN /\ pc' = "done"
            /\ exit' = "exhausted"
            /\ notifications' = send_notification(notifications, clicked_count)
       ELSE /\ pc' = IF ShouldReconnect(consecutive_errors)
                     THEN "reconnect" ELSE "scan"
            /\ exit' = exit
            /\ notifications' = notifications
    /\ last_error' = "none"
    /\ UNCHANGED <<all_succeeded, no_control_seen, modal>>
    /\ UNCHANGED <<max_count, clicked_count, total_scrolls, consecutive_errors,
                   pending_batch_buttons, total_detected_buttons, page,
                   available_buttons, newly_counted,
                   should_scroll_after_batch, tab, rc, pending_at_scan,
                   batch_clicks,
                   batch_size, batch_marks_ok>>

\* self.browser.reconnect()
ReconnectCall ==
    /\ UNCHANGED gui_vars
    /\ UNCHANGED store_vars
    /\ UNCHANGED <<scan_out, stable>>
    /\ pc = "reconnect"
    /\ \E outs \in [1..max_retries -> AttemptOutcomes] :
          LET r == reconnect(tab, outs) IN
          /\ rc' = [called |-> TRUE, ok |-> r.ok, attempts |-> r.attempts,
                    before |-> tab, outs |-> outs]
          /\ tab' = r.tab
    /\ pc' = "reconnected"
    /\ last_error' = "none"
    /\ UNCHANGED <<notifications, all_succeeded, no_control_seen, modal>>
    /\ UNCHANGED <<max_count, clicked_count, total_scrolls, consecutive_errors,
                   pending_batch_buttons, total_detected_buttons, page,
                   available_buttons, newly_counted,
                   should_scroll_after_batch, exit, pending_at_scan,
                   batch_clicks,
                   batch_size, batch_marks_ok>>

\* if self.browser.reconnect(): consecutive_errors = 0  else: ... break
ReconnectReturn ==
    /\ UNCHANGED gui_vars
    /\ UNCHANGED store_vars
    /\ UNCHANGED <<scan_out, stable>>
    /\ pc = "reconnected"
    /\ IF rc.ok
       THEN /\ consecutive_errors' = 0
            /\ pc' = "scan"
            /\ exit' = exit
            /\ notifications' = notifications
       ELSE /\ pc' = ReconnectFailedPc
            /\ exit' = "fatal"
            /\ consecutive_errors' = consecutive_errors
            /\ notifications' = send_notification(notifications, clicked_count)
    /\ last_error' = "none"
    /\ rc' = NoRc
    /\ UNCHANGED <<all_succeeded, no_control_seen, modal>>
    /\ UNCHANGED <<max_count, clicked_count, total_scrolls,
                   pending_batch_buttons, total_detected_buttons, page,
                   available_buttons, newly_counted,
                   should_scroll_after_batch, tab, pending_at_scan,
                   batch_clicks,
                   batch_size, batch_marks_ok>>

\* what the handler of the loop body (lines 829-838) can catch from the scan:
\* an error with one of the markers disconnect / context / target closed in
\* its message, or any other error
ScanErrors == {"transient", "other"}

(* ---------------- BrowserManager.find_element, find_elements ---------------- *)
\* what element_helper.safe_find_element(s) can do: return what it has found
\* (nothing included), raise one of the three DrissionPage errors, raise
\* another error with one of the markers disconnect / context / target closed
\* in its message, or raise any other error
HelperOutcomes ==
    {"elements", "ElementNotFoundError", "PageDisconnectedError",
     "ContextLostError", "marker", "other"}

\* the errors of the helper that tell of a lost connection
Disconnects == {"PageDisconnectedError", "ContextLostError", "marker"}

\* lines 400-442: the element, or None for nothing found and for every
\* error of the first handler and every marker; any other error is raised
find_element(out, ele) ==
    CASE out = "elements" -> [raised |-> FALSE, value |-> ele]
      [] out \in {"ElementNotFoundError"} \cup Disconnects ->
            [raised |-> FALSE, value |-> "None"]
      [] OTHER -> [raised |-> TRUE, value |-> "None"]

\* ElementNotFoundError is left to the caller
find_elements_raises(out, elems) ==
    CASE out = "elements" -> [raised |-> FALSE, value |-> elems]
      [] out \in Disconnects ->
            [raised |-> FALSE, value |-> EmptyBag]
      [] OTHER -> [raised |-> TRUE, value |-> EmptyBag]

\* lines 444-486: elements if elements else [], and [] where find_element
\* gives None
find_elements(out, elems) ==
    CASE out = "elements" -> [raised |-> FALSE, value |-> elems]
      [] out \in {"ElementNotFoundError"} \cup Disconnects ->
            [raised |-> FALSE, value |-> EmptyBag]
      [] OTHER -> [raised |-> TRUE, value |-> EmptyBag]

\* the query of the scan has not missed a button that is on the page: the
\* helper has returned every button, or the connection failed on a page
\* that is as it was
ScanSawPage(out, found, pg) ==
    \/ out = "elements" /\ found = pg
    \/ out \in Disconnects

\* lines 669-695: find_elements returns the buttons found of the page, or
\* [] for an error it swallows, and the marking loop runs to its end
Scan ==
    /\ UNCHANGED gui_vars
    /\ UNCHANGED store_vars
    /\ pc = "scan"
    /\ \E out \in HelperOutcomes :
       \E found \in IF out = "elements" THEN SubBags(page) ELSE {EmptyBag} :
       \E wfail \in 0..find_elements(out, found).value[Unmarked] :
          LET vis == find_elements(out, found).value
              r == ScanResult(page, pending_batch_buttons,
                              total_detected_buttons, vis, wfail) IN
          /\ ~find_elements(out, found).raised
          /\ scan_out' = out
          /\ stable' = (stable /\ wfail = 0 /\ ScanSawPage(out, found, page))
          /\ page' = r.page
          /\ pending_batch_buttons' = r.pending
          /\ total_detected_buttons' = r.detected
          /\ newly_counted' = r.newly
          /\ available_buttons' = r.available
          /\ batch_size' = BagSize(r.available)
          /\ batch_marks_ok' = (wfail = 0)
          /\ all_succeeded' = (all_succeeded /\ vis = page)
          /\ no_control_seen' = (no_control_seen /\ BagSize(vis) = 0)
    /\ pending_at_scan' = pending_batch_buttons
    /\ batch_clicks' = 0
    /\ pc' = "scanned"
    /\ last_error' = "none"
    /\ UNCHANGED <<notifications, modal>>
    /\ UNCHANGED <<max_count, clicked_count, total_scrolls, consecutive_errors,
                   should_scroll_after_batch, tab, rc, exit>>

\* find_elements raises an error it does not classify, or an element access
\* of the marking loop raises after the buttons pre have been handled: the
\* handler of the loop body (lines 829-838) counts an error either way
ScanRaises ==
    /\ UNCHANGED gui_vars
    /\ UNCHANGED store_vars
    /\ pc = "scan"
    /\ \E pre \in SubBags(page) :
       \E wfail \in 0..pre[Unmarked] :
          LET r == ScanResult(page, pending_batch_buttons,
                              total_detected_buttons, pre, wfail) IN
          /\ page' = r.page
          /\ pending_batch_buttons' = r.pending
          /\ total_detected_buttons' = r.detected
          /\ stable' = (stable /\ wfail = 0)
    /\ consecutive_errors' = consecutive_errors + 1
    /\ pc' = "top"
    /\ scan_out' = "none"
    /\ \E kind \in ScanErrors : last_error' = kind
    /\ all_succeeded' = FALSE
    /\ no_control_seen' = FALSE
    /\ UNCHANGED <<notifications, modal>>
    /\ UNCHANGED <<max_count, clicked_count, total_scrolls,
                   available_buttons, newly_counted,
                   should_scroll_after_batch, tab, rc, exit,
                   pending_at_scan, batch_clicks,
                   batch_size, batch_marks_ok>>

\* lines 705-725: no available button, or the start of the batch
Dispatch ==
    /\ UNCHANGED gui_vars
    /\ UNCHANGED store_vars
    /\ pc = "scanned"
    /\ IF BagSize(available_buttons) = 0
       THEN /\ pc' = NoButtonsStep(pending_batch_buttons)
            /\ pending_batch_buttons' =
                   IF NoButtonsStep(pending_batch_buttons) = "scroll"
                   THEN pending_batch_buttons ELSE 0
            /\ newly_counted' = 0
            /\ pending_at_scan' = 0
            /\ batch_size' = 0
            /\ batch_marks_ok' = TRUE
            /\ UNCHANGED <<consecutive_errors, should_scroll_after_batch>>
       ELSE /\ consecutive_errors' = 0
            /\ should_scroll_after_batch' = FALSE
            /\ pc' = "batch"
            /\ UNCHANGED <<pending_batch_buttons, newly_counted,
                           pending_at_scan, batch_size, batch_marks_ok>>
    /\ last_error' = "none"
    /\ scan_out' = "none"
    /\ UNCHANGED stable
    /\ UNCHANGED <<notifications, all_succeeded, no_control_seen, modal>>
    /\ UNCHANGED <<max_count, clicked_count, total_scrolls,
                   total_detected_buttons, page, available_buttons, tab, rc,
                   exit, batch_clicks>>

\* the for loop has walked the whole batch
BatchEnd ==
    /\ UNCHANGED gui_vars
    /\ UNCHANGED store_vars
    /\ UNCHANGED <<scan_out, stable>>
    /\ pc = "batch"
    /\ BagSize(available_buttons) = 0
    /\ pc' = "after"
    /\ last_error' = "none"
    /\ UNCHANGED <<notifications, all_succeeded, no_control_seen, modal>>
    /\ UNCHANGED <<max_count, clicked_count, total_scrolls, consecutive_errors,
                   pending_batch_buttons, total_detected_buttons, page,
                   available_buttons, newly_counted,
                   should_scroll_after_batch, tab, rc, exit,
                   pending_at_scan, batch_clicks,
                   batch_size, batch_marks_ok>>

\* lines 727-738: the target is reached, notify and return
BatchTarget ==
    /\ UNCHANGED gui_vars
    /\ UNCHANGED store_vars
    /\ UNCHANGED <<scan_out, stable>>
    /\ pc = "batch"
    /\ BagSize(available_buttons) > 0
    /\ TargetReached(clicked_count, max_count)
    /\ pc' = "done"
    /\ exit' = "target_return"
    /\ notifications' = send_notification(notifications, clicked_count)
    /\ last_error' = "none"
    /\ UNCHANGED <<all_succeeded, no_control_seen, modal>>
    /\ UNCHANGED <<max_count, clicked_count, total_scrolls, consecutive_errors,
                   pending_batch_buttons, total_detected_buttons, page,
                   available_buttons, newly_counted,
                   should_scroll_after_batch, tab, rc, pending_at_scan,
                   batch_clicks,
                   batch_size, batch_marks_ok>>

\* lines 770-781: the click went through
Clicked(btn, markOk, modal_out) ==
    LET m == _mark_button_state(btn, "clicked", markOk)
        p == DecPending(pending_batch_buttons)
    IN
    /\ clicked_count' = clicked_count + 1
    /\ page' = BagAdd(BagRemove(page, btn), m.btn)
    /\ pending_batch_buttons' = p
    /\ should_scroll_after_batch' =
           IF FlagScroll(p) THEN TRUE ELSE should_scroll_after_batch
    /\ batch_clicks' = batch_clicks + 1
    /\ batch_marks_ok' = (batch_marks_ok /\ m.ok)
    /\ stable' = (stable /\ m.ok)
    /\ all_succeeded' = (all_succeeded /\ modal_out = "done")
    /\ last_error' = IF IsTransient(modal_out) THEN "transient" ELSE "none"
    /\ LET a == AfterModal(modal_out, consecutive_errors,
                           BagRemove(available_buttons, btn)) IN
       /\ consecutive_errors' = a.errs
       /\ pc' = a.pc
       /\ available_buttons' = a.available

\* lines 782-802: no attempt went through
NotClicked(btn, result) ==
    /\ UNCHANGED <<clicked_count, page, pending_batch_buttons,
                   should_scroll_after_batch, batch_clicks, batch_marks_ok,
                   stable>>
    /\ all_succeeded' = FALSE
    /\ last_error' = IF result = "gave_up" THEN "none" ELSE result
    /\ IF IsPageGone(result)
       THEN /\ consecutive_errors' = consecutive_errors + 1
            /\ pc' = "after"
            /\ available_buttons' = EmptyBag
       ELSE /\ consecutive_errors' = consecutive_errors
            /\ pc' = "batch"
            /\ available_buttons' = BagRemove(available_buttons, btn)

\* lines 740-802: the next button of the batch
ClickButton ==
    /\ UNCHANGED gui_vars
    /\ UNCHANGED store_vars
    /\ UNCHANGED scan_out
    /\ pc = "batch"
    /\ ~TargetReached(clicked_count, max_count)
    /\ \E btn \in {b \in Buttons : BagIn(b, available_buttons)} :
       \E result \in ClickResults :
          IF result = "clicked"
          THEN \E markOk \in BOOLEAN, modal_out \in ModalOutcomes :
                  Clicked(btn, markOk, modal_out)
          ELSE NotClicked(btn, result)
    /\ UNCHANGED <<notifications, no_control_seen, modal>>
    /\ UNCHANGED <<max_count, total_scrolls, total_detected_buttons,
                   newly_counted, tab, rc, exit, pending_at_scan,
                   batch_size>>

\* lines 804-822: after the batch; the locals of the iteration are dead then
AfterBatch ==
    /\ UNCHANGED gui_vars
    /\ UNCHANGED store_vars
    /\ UNCHANGED <<scan_out, stable>>
    /\ pc = "after"
    /\ IF TargetReached(clicked_count, max_count)
       THEN /\ pc' = "done"
            /\ exit' = "target_break"
            /\ notifications' = send_notification(notifications, clicked_count)
       ELSE /\ pc' = AfterBatchStep(should_scroll_after_batch,
                                    pending_batch_buttons)
            /\ exit' = exit
            /\ notifications' = notifications
    /\ last_error' = "none"
    /\ should_scroll_after_batch' = FALSE
    /\ newly_counted' = 0
    /\ pending_at_scan' = 0
    /\ batch_clicks' = 0
    /\ batch_size' = 0
    /\ batch_marks_ok' = TRUE
    /\ UNCHANGED <<all_succeeded, no_control_seen, modal>>
    /\ UNCHANGED <<max_count, clicked_count, total_scrolls, consecutive_errors,
                   pending_batch_buttons, total_detected_buttons, page,
                   available_buttons, tab, rc>>

\* if not self.browser.scroll_down(500): consecutive_errors += 1; continue
\* time.sleep(self.scroll_delay); total_scrolls += 1
Scroll ==
    /\ UNCHANGED gui_vars
    /\ UNCHANGED store_vars
    /\ UNCHANGED <<scan_out, stable>>
    /\ pc = "scroll"
    /\ \E ok \in BOOLEAN :
          IF ok
          THEN /\ total_scrolls' = total_scrolls + 1
               /\ consecutive_errors' = consecutive_errors
               /\ last_error' = "none"
               /\ no_control_seen' = no_control_seen
          ELSE /\ consecutive_errors' = consecutive_errors + 1
               /\ total_scrolls' = total_scrolls
               /\ last_error' = "scroll"
               /\ no_control_seen' = FALSE
    /\ pc' = "top"
    /\ UNCHANGED <<notifications, all_succeeded, modal>>
    /\ UNCHANGED <<max_count, clicked_count, pending_batch_buttons,
                   total_detected_buttons, page, available_buttons,
                   newly_counted, should_scroll_after_batch, tab, rc, exit,
                   pending_at_scan, batch_clicks,
                   batch_size, batch_marks_ok>>

\* lines 1709-1716 of _start_send_proposals: send_proposals has returned
\* count, and the caller notifies in its turn
StartSendProposalsReturn ==
    /\ UNCHANGED gui_vars
    /\ UNCHANGED store_vars
    /\ UNCHANGED <<scan_out, stable>>
    /\ pc = "done"
    /\ pc' = "returned"
    /\ notifications' = send(notifications, clicked_count)
    /\ last_error' = "none"
    /\ UNCHANGED <<max_count, clicked_count, total_scrolls, consecutive_errors,
                   pending_batch_buttons, total_detected_buttons, page,
                   available_buttons, newly_counted,
                   should_scroll_after_batch, tab, rc, exit, pending_at_scan,
                   batch_clicks, batch_size, batch_marks_ok, all_succeeded,
                   no_control_seen, modal>>

Next ==
    \/ LoopHead
    \/ ReconnectCall
    \/ ReconnectReturn
    \/ Scan
    \/ ScanRaises
    \/ Dispatch
    \/ BatchEnd
    \/ BatchTarget
    \/ ClickButton
    \/ AfterBatch
    \/ Scroll
    \/ StartSendProposalsReturn

Spec == Init /\ [][Next]_vars

\* the engine is one sequential thread: whenever a step is possible it is taken
FairSpec == Spec /\ WF_vars(Next)

\* a run started with max_count = 2 on a page that holds exactly two buttons
EndToEndInit ==
    /\ NoWorker
    /\ NoStore
    /\ scan_out = "none"
    /\ stable = TRUE
    /\ pc = "top"
    /\ max_count = 2
    /\ clicked_count = 0
    /\ total_scrolls = 0
    /\ consecutive_errors = 0
    /\ pending_batch_buttons = 0
    /\ total_detected_buttons = 0
    /\ page = [EmptyBag EXCEPT ![Unmarked] = 2]
    /\ available_buttons = EmptyBag
    /\ newly_counted = 0
    /\ should_scroll_after_batch = FALSE
    /\ tab = 0
    /\ rc = NoRc
    /\ exit = "none"
    /\ pending_at_scan = 0
    /\ batch_clicks = 0
    /\ batch_size = 0
    /\ batch_marks_ok = TRUE
    /\ notifications = <<>>
    /\ last_error = "none"
    /\ all_succeeded = TRUE
    /\ no_control_seen = TRUE
    /\ modal = NoModal

EndToEndSpec == EndToEndInit /\ [][Next]_vars

\* a run started with max_count = 3 on a page that holds two buttons
SmallPageInit ==
    /\ NoWorker
    /\ NoStore
    /\ scan_out = "none"
    /\ stable = TRUE
    /\ pc = "top"
    /\ max_count = 3
    /\ clicked_count = 0
    /\ total_scrolls = 0
    /\ consecutive_errors = 0
    /\ pending_batch_buttons = 0
    /\ total_detected_buttons = 0
    /\ page = [EmptyBag EXCEPT ![Unmarked] = 2]
    /\ available_buttons = EmptyBag
    /\ newly_counted = 0
    /\ should_scroll_after_batch = FALSE
    /\ tab = 0
    /\ rc = NoRc
    /\ exit = "none"
    /\ pending_at_scan = 0
    /\ batch_clicks = 0
    /\ batch_size = 0
    /\ batch_marks_ok = TRUE
    /\ notifications = <<>>
    /\ last_error = "none"
    /\ all_succeeded = TRUE
    /\ no_control_seen = TRUE
    /\ modal = NoModal

SmallPageSpec == SmallPageInit /\ [][Next]_vars

(* ---------------- runs in which the notification sink can fail ---------------- *)
\* NotificationService().send(NotificationPayload(message=f"发送失败: {e}"))
\* of _start_send_proposals
send_failed(ns) ==
    Append(ns, [kind |-> "failed", count |-> 0])

\* lines 732-737 inside the try of the loop body: send_notification raises,
\* the return of line 738 is not reached, and the handler of lines 829-838
\* counts an error and lets the loop go on
BatchTargetSinkRaises ==
    /\ UNCHANGED gui_vars
    /\ UNCHANGED store_vars
    /\ UNCHANGED <<scan_out, stable>>
    /\ pc = "batch"
    /\ BagSize(available_buttons) > 0
    /\ TargetReached(clicked_count, max_count)
    /\ consecutive_errors' = consecutive_errors + 1
    /\ pc' = "top"
    /\ last_error' = "sink"
    /\ all_succeeded' = FALSE
    /\ UNCHANGED <<notifications, no_control_seen, modal>>
    /\ UNCHANGED <<max_count, clicked_count, total_scrolls,
                   pending_batch_buttons, total_detected_buttons, page,
                   available_buttons, newly_counted,
                   should_scroll_after_batch, tab, rc, exit, pending_at_scan,
                   batch_clicks, batch_size, batch_marks_ok>>

\* lines 843-849 after the loop (left by its condition, by the break of line
\* 806 or by the break of line 665): send_notification raises, nothing
\* catches it in send_proposals, and line 851 is not reached
FinalNotifyRaises ==
    /\ UNCHANGED gui_vars
    /\ UNCHANGED store_vars
    /\ UNCHANGED <<scan_out, stable>>
    /\ \/ pc = "top" /\ ~LoopCond(total_scrolls) /\ exit' = "exhausted"
       \/ pc = "after" /\ TargetReached(clicked_count, max_count)
             /\ exit' = "target_break"
       \/ pc = "reconnected" /\ ~rc.ok /\ exit' = "fatal"
    /\ pc' = "raised"
    /\ rc' = NoRc
    /\ last_error' = "sink"
    /\ should_scroll_after_batch' = FALSE
    /\ newly_counted' = 0
    /\ pending_at_scan' = 0
    /\ batch_clicks' = 0
    /\ batch_size' = 0
    /\ batch_marks_ok' = TRUE
    /\ UNCHANGED <<notifications, all_succeeded, no_control_seen, modal>>
    /\ UNCHANGED <<max_count, clicked_count, total_scrolls,
                   consecutive_errors, pending_batch_buttons,
                   total_detected_buttons, page, available_buttons, tab>>

\* lines 1717-1721 of _start_send_proposals: send_proposals has raised, and
\* the caller reports the run as failed
StartSendProposalsFails ==
    /\ UNCHANGED gui_vars
    /\ UNCHANGED store_vars
    /\ UNCHANGED <<scan_out, stable>>
    /\ pc = "raised"
    /\ pc' = "failed"
    /\ notifications' = send_failed(notifications)
    /\ UNCHANGED <<max_count, clicked_count, total_scrolls, consecutive_errors,
                   pending_batch_buttons, total_detected_buttons, page,
                   available_buttons, newly_counted,
                   should_scroll_after_batch, tab, rc, exit, pending_at_scan,
                   batch_clicks, batch_size, batch_marks_ok, all_succeeded,
                   no_control_seen, modal, last_error>>

\* the steps of a run, and those in which the sink raises
SinkNext ==
    \/ LoopHead
    \/ ReconnectCall
    \/ ReconnectReturn
    \/ Scan
    \/ ScanRaises
    \/ Dispatch
    \/ BatchEnd
    \/ BatchTarget
    \/ ClickButton
    \/ AfterBatch
    \/ Scroll
    \/ StartSendProposalsReturn
    \/ BatchTargetSinkRaises
    \/ FinalNotifyRaises
    \/ StartSendProposalsFails

\* Spec takes the sink to accept every notification; here it may raise
SinkSpec == EndToEndInit /\ [][SinkNext]_vars

(* ---------------- one item: lines 780-802 and the modal workflow ---------------- *)
\* the variables of the main loop
loop_vars == <<pc, max_count, clicked_count, total_scrolls, consecutive_errors,
               pending_batch_buttons, total_detected_buttons, page,
               available_buttons, newly_counted, should_scroll_after_batch,
               tab, rc, exit, pending_at_scan, batch_clicks, batch_size,
               batch_marks_ok, notifications, last_error, all_succeeded,
               no_control_seen, is_running, signals, to_walk, attempt,
               stopped_at, issued_on, scan_out, templates,
               active_template_id, stable>>

\* configured template terms (self.template_term); the empty one stands for
\* a term that is not set
Terms ==
    {<<"Public", "sp", "Terms">>,
     <<"Terms">>,
     <<"PUBLIC", "sp", "sp", "Terms", "sp", "(N)">>,
     <<"Context", "sp", "Terms">>,
     <<>>}

\* texts of the options of the dropdown
OptionTexts ==
    {<<"Public", "sp", "Terms", "sp", "(N)">>,
     <<"Ulanzi", "sp", "Terms", "sp", "(N)">>,
     <<"PUBLIC", "sp", "sp", "Terms">>,
     <<"Terms", "(N)">>,
     <<>>}

OptionLists == UNION {[1..n -> OptionTexts] : n \in 0..MaxOptions}

\* category labels of the row of the button (selected_tab); the empty one
\* stands for a label that could not be derived
Tabs == {<<>>, <<"Ads">>, <<"Context", "sp", "Ads">>}

\* texts of the first suggestion of the tag input
Suggestions ==
    {<<"Ads", "sp", "(N)">>,
     <<"sp", "ADS", "sp">>,
     <<"Video", "sp", "(N)">>,
     <<"Context", "Ads", "sp", "(N)">>,
     <<"Context", "sp", "Video">>}

\* the items: every term with every dropdown for one category, and every
\* category with every suggestion for one term
Items ==
    {NewModal(t, o, <<"Ads">>, <<"Ads", "sp", "(N)">>) :
        t \in Terms, o \in OptionLists}
    \cup
    {NewModal(<<"Public", "sp", "Terms">>,
              <<<<"Public", "sp", "Terms", "sp", "(N)">>>>, c, g) :
        c \in Tabs, g \in Suggestions}

\* the loop after lines 770-778 for the first button of a batch of two: the
\* click is counted, the button is marked, the workflow is about to start
ItemInit ==
    /\ NoWorker
    /\ NoStore
    /\ scan_out = "none"
    /\ stable = TRUE
    /\ pc = "modal"
    /\ max_count = MaxTarget
    /\ clicked_count = 1
    /\ total_scrolls = 0
    /\ consecutive_errors = 0
    /\ pending_batch_buttons = 1
    /\ total_detected_buttons = 2
    /\ page = MkBag(NElems - 2, 1, 0, 1)
    /\ available_buttons = MkBag(0, 1, 0, 0)
    /\ newly_counted = 2
    /\ should_scroll_after_batch = FALSE
    /\ tab = 0
    /\ rc = NoRc
    /\ exit = "none"
    /\ pending_at_scan = 0
    /\ batch_clicks = 1
    /\ batch_size = 2
    /\ batch_marks_ok = TRUE
    /\ notifications = <<>>
    /\ last_error = "none"
    /\ all_succeeded = TRUE
    /\ no_control_seen = FALSE
    /\ modal \in Items

\* the step name has run, and fault is what a page operation of it raised
Ran(m, name, fault) ==
    [m EXCEPT !.steps = Append(@, name),
              !.transient_in = IF fault = "transient" THEN @ \cup {name} ELSE @]

\* the workflow ends without submitting: return False, or raise
Ended(m, name, result) ==
    [m EXCEPT !.step = "returned", !.failed = @ \cup {name},
              !.result = result]

\* a workflow that ends at a step that has not done its work
SoftStep_stops(m, name, ok, next) ==
    IF ok THEN [m EXCEPT !.step = next] ELSE Ended(m, name, "item_aborted")

\* lines 888-889: the step has returned ok, and the workflow does not look at
\* it: the next step runs either way
SoftStep(m, name, ok, next) ==
    [m EXCEPT !.step = next,
              !.failed = IF ok THEN @ ELSE @ \cup {name}]

\* lines 877-880 and _wait_for_modal_iframe: find_element gives None for an
\* error with a marker and raises any other; no iframe before the deadline
\* makes the workflow return False
WaitForModalIframe ==
    /\ modal.step = "AwaitSurface"
    /\ \E fault \in Faults, found \in BOOLEAN :
          LET m == Ran(modal, "AwaitSurface", fault) IN
          modal' = IF fault = "other"
                   THEN Ended(m, "AwaitSurface", HandleException(FALSE))
                   ELSE IF found
                   THEN [m EXCEPT !.step = "SelectTerm"]
                   ELSE Ended(m, "AwaitSurface", "item_aborted")
    /\ UNCHANGED loop_vars

\* lines 881-883: _select_template_term catches every error and returns
\* False; False raises template_term_not_found with the configured term in
\* its message
SelectTemplateTerm ==
    /\ modal.step = "SelectTerm"
    /\ \E fault \in Faults, native \in {"absent", "selects", "fails"},
          dropdown \in BOOLEAN,
          answer \in 0..PromptSize(modal.term, modal.options),
          by_text \in BOOLEAN, ellipsis \in BOOLEAN :
          LET env == [native |-> native, dropdown |-> dropdown,
                      answer |-> answer, by_text |-> by_text,
                      ellipsis |-> ellipsis]
              r == IF fault # "none"
                   THEN [ok |-> FALSE, via |-> "none", selected |-> 0,
                         prompted |-> FALSE, answer |-> 0]
                   ELSE _select_template_term(modal.term, modal.options, env)
              m == [Ran(modal, "SelectTerm", fault) EXCEPT
                        !.read = (fault = "none" /\ native # "selects"
                                  /\ dropdown),
                        !.via = r.via, !.selected = r.selected,
                        !.prompted = r.prompted, !.answer = r.answer]
          IN  modal' = IF r.ok
                       THEN [m EXCEPT !.step = IF modal.tab # <<>>
                                               THEN "SelectCategoryTag"
                                               ELSE "SelectDate"]
                       ELSE Ended(m, "SelectTerm",
                                  HandleException(HasMarker(modal.term)))
    /\ UNCHANGED loop_vars

\* lines 885-886 and _input_tag_and_select: every error of the step is raised
\* again; the mismatch message quotes search_text and option_category
InputTagAndSelect ==
    /\ modal.step = "SelectCategoryTag"
    /\ \E fault \in Faults,
          present \in {"all", "no_input", "no_dropdown", "no_options"} :
          LET m == Ran(modal, "SelectCategoryTag", fault) IN
          modal' =
              IF fault # "none"
              THEN Ended(m, "SelectCategoryTag",
                         HandleException(fault = "transient"))
              ELSE IF present # "all"
              THEN Ended(m, "SelectCategoryTag", HandleException(FALSE))
              ELSE IF TagMismatch(modal.tab, modal.suggestion)
              THEN Ended([m EXCEPT !.compared = TRUE], "SelectCategoryTag",
                         HandleException(
                             \/ HasMarker(SearchText(modal.tab))
                             \/ HasMarker(OptionCategory(modal.suggestion))))
              ELSE [m EXCEPT !.compared = TRUE,
                             !.suggestion_clicked = TRUE,
                             !.step = "SelectDate"]
    /\ UNCHANGED loop_vars

\* line 888 and _select_tomorrow_date: the step catches every error, and its
\* result is not looked at
SelectTomorrowDate ==
    /\ modal.step = "SelectDate"
    /\ \E fault \in Faults, found \in BOOLEAN :
          LET m == Ran(modal, "SelectDate", fault) IN
          modal' = SoftStep(m, "SelectDate", fault = "none" /\ found,
                            "FillComment")
    /\ UNCHANGED loop_vars

\* line 889 and _input_comment: the same
InputComment ==
    /\ modal.step = "FillComment"
    /\ \E fault \in Faults, filled \in BOOLEAN :
          LET m == Ran(modal, "FillComment", fault) IN
          modal' = SoftStep(m, "FillComment", fault = "none" /\ filled,
                            "Submit")
    /\ UNCHANGED loop_vars

\* what a lookup of the 'I understand' button gives when the button is
\* there (present) or not
Lookup(out, present) ==
    find_element(out, IF present THEN "element" ELSE "None")

\* lines 1225-1257: the three lookups all have parent=iframe; the button is
\* clicked when one of them finds it, and an error that find_element raises
\* is caught and makes the step return False
_click_understand_button(in_iframe, in_page, out) ==
    /\ ~Lookup(out, in_iframe).raised
    /\ \/ Lookup(out, in_iframe).value = "element"
       \/ Lookup(out, in_iframe).value = "element"

\* lines 879-911 of src/main.py: the third lookup has no parent and looks in
\* the page
_click_understand_button_main(in_iframe, in_page, out) ==
    /\ ~Lookup(out, in_iframe).raised
    /\ \/ Lookup(out, in_iframe).value = "element"
       \/ Lookup(out, in_page).value = "element"

\* where the 'I understand' button is and what the element helper does in
\* the lookups for it
AckCases ==
    {[in_iframe |-> i, in_page |-> p, out |-> "elements"] :
        i \in BOOLEAN, p \in BOOLEAN}
    \cup {[in_iframe |-> FALSE, in_page |-> FALSE, out |-> "other"]}

\* _submit_proposal: the step catches every error; when it has clicked the
\* submit button it goes on to _click_understand_button, whose result it
\* does not look at; the workflow returns True either way (lines 890-891)
Submitted(m, a, clicked) ==
    [m EXCEPT !.step = "returned", !.result = "done", !.submitted = TRUE,
              !.steps = Append(@, "AcknowledgeDisclaimer"),
              !.ack = [in_iframe |-> a.in_iframe, in_page |-> a.in_page,
                       out |-> a.out, clicked |-> clicked]]

\* _submit_proposal has found no submit button, or has caught an error
NotSubmitted(m) ==
    [m EXCEPT !.step = "returned", !.result = "done",
              !.failed = @ \cup {"Submit"}]

\* lines 890-891 and 1189-1223 of src/main_updated.py
SubmitProposal ==
    /\ modal.step = "Submit"
    /\ \E fault \in Faults, found \in BOOLEAN, a \in AckCases :
          LET m == Ran(modal, "Submit", fault) IN
          modal' = IF fault = "none" /\ found
                   THEN Submitted(m, a,
                            _click_understand_button(a.in_iframe, a.in_page,
                                                     a.out))
                   ELSE NotSubmitted(m)
    /\ UNCHANGED loop_vars

\* lines 781-802: back in the loop, with what the workflow returned or raised
ItemHandled ==
    /\ UNCHANGED gui_vars
    /\ UNCHANGED store_vars
    /\ UNCHANGED <<scan_out, stable>>
    /\ pc = "modal"
    /\ modal.step = "returned"
    /\ LET a == AfterModal(modal.result, consecutive_errors,
                           available_buttons) IN
       /\ consecutive_errors' = a.errs
       /\ pc' = a.pc
       /\ available_buttons' = a.available
    /\ last_error' = IF IsTransient(modal.result) THEN "transient" ELSE "none"
    /\ all_succeeded' = (all_succeeded /\ modal.result = "done")
    /\ modal' = [modal EXCEPT !.step = "handled"]
    /\ UNCHANGED <<max_count, clicked_count, total_scrolls,
                   pending_batch_buttons, total_detected_buttons, page,
                   newly_counted, should_scroll_after_batch, tab, rc, exit,
                   pending_at_scan, batch_clicks, batch_size, batch_marks_ok,
                   notifications, no_control_seen>>

ItemNext ==
    \/ WaitForModalIframe
    \/ SelectTemplateTerm
    \/ InputTagAndSelect
    \/ SelectTomorrowDate
    \/ InputComment
    \/ SubmitProposal
    \/ ItemHandled

ItemSpec == ItemInit /\ [][ItemNext]_vars

(* ---------------- a run of send_proposals(1) from its click on ---------------- *)
\* send_proposals(max_count = 1) after lines 770-778 for the first button of
\* a batch of two
ItemRunInit ==
    /\ NoWorker
    /\ NoStore
    /\ scan_out = "none"
    /\ stable = TRUE
    /\ pc = "modal"
    /\ max_count = 1
    /\ clicked_count = 1
    /\ total_scrolls = 0
    /\ consecutive_errors = 0
    /\ pending_batch_buttons = 1
    /\ total_detected_buttons = 2
    /\ page = MkBag(NElems - 2, 1, 0, 1)
    /\ available_buttons = MkBag(0, 1, 0, 0)
    /\ newly_counted = 2
    /\ should_scroll_after_batch = FALSE
    /\ tab = 0
    /\ rc = NoRc
    /\ exit = "none"
    /\ pending_at_scan = 0
    /\ batch_clicks = 1
    /\ batch_size = 2
    /\ batch_marks_ok = TRUE
    /\ notifications = <<>>
    /\ last_error = "none"
    /\ all_succeeded = TRUE
    /\ no_control_seen = FALSE
    /\ modal \in Items

\* the workflow of the item, then the steps of the loop that lead to the
\* return: the target check of the for loop (line 727) or the one after the
\* batch (line 804), and the return to the caller
ItemRunNext ==
    \/ ItemNext
    \/ BatchTarget
    \/ AfterBatch
    \/ StartSendProposalsReturn

ItemRunSpec == ItemRunInit /\ [][ItemRunNext]_vars

(* ---------------- the workflow of src/main.py ---------------- *)
\* line 621 of src/main.py: _select_template_term catches every error and
\* returns whether it has selected an option, and the workflow does not look
\* at what it returns
SelectTemplateTermMain ==
    /\ modal.step = "SelectTerm"
    /\ \E fault \in Faults, selects \in BOOLEAN :
          LET ok == fault = "none" /\ selects
              m == [Ran(modal, "SelectTerm", fault) EXCEPT
                        !.via = IF ok THEN "main" ELSE "none"]
          IN  modal' = [m EXCEPT !.step = IF modal.tab # <<>>
                                          THEN "SelectCategoryTag"
                                          ELSE "SelectDate",
                                 !.failed = IF ok THEN @
                                            ELSE @ \cup {"SelectTerm"}]
    /\ UNCHANGED loop_vars

\* lines 636-637 and _submit_proposal of src/main.py, with the
\* _click_understand_button of src/main.py
SubmitProposalMain ==
    /\ modal.step = "Submit"
    /\ \E fault \in Faults, found \in BOOLEAN, a \in AckCases :
          LET m == Ran(modal, "Submit", fault) IN
          modal' = IF fault = "none" /\ found
                   THEN Submitted(m, a,
                            _click_understand_button_main(a.in_iframe,
                                                          a.in_page, a.out))
                   ELSE NotSubmitted(m)
    /\ UNCHANGED loop_vars

\* _handle_proposal_modal of src/main.py (lines 614-638): the steps other
\* than line 621 and the acknowledgement are those of src/main_updated.py
MainItemNext ==
    \/ WaitForModalIframe
    \/ SelectTemplateTermMain
    \/ InputTagAndSelect
    \/ SelectTomorrowDate
    \/ InputComment
    \/ SubmitProposalMain
    \/ ItemHandled

MainItemSpec == ItemInit /\ [][MainItemNext]_vars

(* ---------------- WorkerThread of src/gui.py ---------------- *)
\* the variables of send_proposals and of the template store, which
\* WorkerThread.run has no part in
engine_vars == <<pending_batch_buttons, total_detected_buttons, page,
                 available_buttons, newly_counted, should_scroll_after_batch,
                 rc, exit, pending_at_scan, batch_clicks, batch_size,
                 batch_marks_ok, notifications, last_error, all_succeeded,
                 no_control_seen, modal, scan_out, templates,
                 active_template_id, stable>>

\* self.finished_signal.emit(clicked_count)
finished_signal(count) == [kind |-> "finished", count |-> count]
\* self.error_signal.emit("重连失败，停止执行")
error_signal == [kind |-> "error", count |-> 0]

\* while total_scrolls < max_scrolls and self.is_running (max_scrolls is the
\* local 100 of run, scaled as in the engine)
WorkerLoopCond(scrolls, running) == scrolls < max_scrolls /\ running

\* a for loop that does not look at the flag
SkipButton_never(running) == FALSE

\* if not self.is_running: break
SkipButton(running) == ~running

\* the sessions a run can go through
MaxSessions == 2

\* from main import tab, browser (line 54): the name tab of run is bound to
\* the session the module holds when run starts, and run never binds it again
run_tab == 0

\* reconnect_browser() of main acquires a new session and makes it the one
\* the helpers of main work on
reconnect_browser(t) == t + 1

\* what reconnect_browser() can return: True while a new session is to be had
ReconnectResults(t) == IF t < MaxSessions THEN BOOLEAN ELSE {FALSE}

\* the worker thread is started on WorkerThread(max_count)
WorkerInit ==
    /\ pc = "w_top"
    /\ max_count \in MaxCounts
    /\ clicked_count = 0
    /\ total_scrolls = 0
    /\ consecutive_errors = 0
    /\ pending_batch_buttons = 0
    /\ total_detected_buttons = 0
    /\ page = [EmptyBag EXCEPT ![Unmarked] = NElems]
    /\ available_buttons = EmptyBag
    /\ newly_counted = 0
    /\ should_scroll_after_batch = FALSE
    /\ tab = 0
    /\ rc = NoRc
    /\ exit = "none"
    /\ pending_at_scan = 0
    /\ batch_clicks = 0
    /\ batch_size = 0
    /\ batch_marks_ok = TRUE
    /\ notifications = <<>>
    /\ last_error = "none"
    /\ all_succeeded = TRUE
    /\ no_control_seen = TRUE
    /\ modal = NoModal
    /\ NoWorker
    /\ NoStore
    /\ scan_out = "none"
    /\ stable = TRUE

\* WorkerThread.stop, called from the thread of the window
Stop ==
    /\ pc \in {"w_top", "w_reconnect", "w_scan", "w_scroll", "w_for",
               "w_item", "w_modal", "w_after", "w_emit"}
    /\ is_running
    /\ is_running' = FALSE
    /\ stopped_at' = pc
    /\ UNCHANGED <<pc, max_count, clicked_count, total_scrolls,
                   consecutive_errors, signals, to_walk, attempt, issued_on,
                   tab>>
    /\ UNCHANGED engine_vars

\* lines 64-66: the condition of the while loop and the reconnect check
WorkerLoopHead ==
    /\ pc = "w_top"
    /\ pc' = IF ~WorkerLoopCond(total_scrolls, is_running) THEN "w_emit"
             ELSE IF ShouldReconnect(consecutive_errors) THEN "w_reconnect"
             ELSE "w_scan"
    /\ UNCHANGED <<max_count, clicked_count, total_scrolls,
                   consecutive_errors, tab>>
    /\ UNCHANGED gui_vars
    /\ UNCHANGED engine_vars

\* lines 67-74: reconnect_browser() returns True (continue) or False
\* (error_signal, break)
WorkerReconnect ==
    /\ pc = "w_reconnect"
    /\ \E ok \in ReconnectResults(tab) :
          IF ok
          THEN /\ consecutive_errors' = 0
               /\ pc' = "w_top"
               /\ signals' = signals
               /\ tab' = reconnect_browser(tab)
          ELSE /\ consecutive_errors' = consecutive_errors
               /\ pc' = "w_emit"
               /\ signals' = Append(signals, error_signal)
               /\ tab' = tab
    /\ UNCHANGED <<max_count, clicked_count, total_scrolls, is_running,
                   to_walk, attempt, stopped_at, issued_on>>
    /\ UNCHANGED engine_vars

\* lines 76-100 and 162-167: safe_find_elements gives None (count an error,
\* reconnect, continue), raises (the handler of the loop body counts an
\* error) or gives n buttons with the text Send Proposal
WorkerScan ==
    /\ pc = "w_scan"
    /\ \E out \in {"none", "raises", "list"},
          reconnected \in ReconnectResults(tab), n \in 0..NElems :
          CASE out = "none" ->
                  /\ consecutive_errors' =
                         IF reconnected THEN 0 ELSE consecutive_errors + 1
                  /\ tab' = IF reconnected THEN reconnect_browser(tab)
                            ELSE tab
                  /\ pc' = "w_top"
                  /\ to_walk' = to_walk
            [] out = "raises" ->
                  /\ consecutive_errors' = consecutive_errors + 1
                  /\ pc' = "w_top"
                  /\ to_walk' = to_walk
                  /\ tab' = tab
            [] out = "list" /\ n = 0 ->
                  /\ consecutive_errors' = consecutive_errors
                  /\ pc' = "w_scroll"
                  /\ to_walk' = to_walk
                  /\ tab' = tab
            [] out = "list" /\ n > 0 ->
                  /\ consecutive_errors' = 0
                  /\ pc' = "w_for"
                  /\ to_walk' = n
                  /\ tab' = tab
    /\ issued_on' = tab
    /\ UNCHANGED <<max_count, clicked_count, total_scrolls, is_running,
                   signals, attempt, stopped_at>>
    /\ UNCHANGED engine_vars

\* lines 91-98 and 154-160: tab.scroll.down(500) raises or not
WorkerScroll ==
    /\ pc = "w_scroll"
    /\ \E ok \in BOOLEAN :
          IF ok
          THEN /\ total_scrolls' = total_scrolls + 1
               /\ consecutive_errors' = consecutive_errors
          ELSE /\ total_scrolls' = total_scrolls
               /\ consecutive_errors' = consecutive_errors + 1
    /\ pc' = "w_top"
    /\ issued_on' = run_tab
    /\ UNCHANGED <<max_count, clicked_count, tab, is_running, signals,
                   to_walk, attempt, stopped_at>>
    /\ UNCHANGED engine_vars

\* lines 103-112: the head of the for loop: the end of the list, the flag,
\* the target, or the start of the click sequence of the next button (the
\* sequence of a button begins with the read of the flag at line 104: there
\* is no wait between that read and the try of line 112)
WorkerNextButton ==
    /\ pc = "w_for"
    /\ IF to_walk = 0
       THEN /\ pc' = "w_after"
            /\ UNCHANGED <<to_walk, signals, attempt>>
       ELSE IF SkipButton(is_running)
       THEN /\ pc' = "w_after"
            /\ to_walk' = 0
            /\ UNCHANGED <<signals, attempt>>
       ELSE IF TargetReached(clicked_count, max_count)
       THEN /\ pc' = "w_returned"
            /\ signals' = Append(signals, finished_signal(clicked_count))
            /\ UNCHANGED <<to_walk, attempt>>
       ELSE /\ pc' = "w_item"
            /\ attempt' = 0
            /\ UNCHANGED <<to_walk, signals>>
    /\ UNCHANGED <<max_count, clicked_count, total_scrolls,
                   consecutive_errors, is_running, stopped_at, issued_on,
                   tab>>
    /\ UNCHANGED engine_vars

\* where the for loop goes when the click loop is left without a raise
\* after one more attempt: the next attempt, or the next button
AfterAttempt(n) ==
    IF n + 1 < max_attempts
    THEN [pc |-> "w_item", attempt |-> n + 1, walked |-> 0]
    ELSE [pc |-> "w_for", attempt |-> 0, walked |-> 1]

\* lines 112-149, one attempt of the click loop: the ancestor chain has
\* ended, the click fails (climb), an error that the handler of the button
\* classifies as a refreshed page is raised (count it, break), another error
\* leaves the loop (continue), or the click goes through
WorkerClick ==
    /\ pc = "w_item"
    /\ \E out \in {"chain_ends", "fails", "page_gone", "other", "clicked"} :
          CASE out = "clicked" ->
                  /\ clicked_count' = clicked_count + 1
                  /\ pc' = "w_modal"
                  /\ issued_on' = tab
                  /\ UNCHANGED <<consecutive_errors, to_walk, attempt>>
            [] out = "fails" ->
                  /\ issued_on' \in {run_tab, tab}
                  /\ pc' = AfterAttempt(attempt).pc
                  /\ attempt' = AfterAttempt(attempt).attempt
                  /\ to_walk' = to_walk - AfterAttempt(attempt).walked
                  /\ UNCHANGED <<clicked_count, consecutive_errors>>
            [] out = "page_gone" ->
                  /\ issued_on' \in {run_tab, tab}
                  /\ consecutive_errors' = consecutive_errors + 1
                  /\ pc' = "w_after"
                  /\ to_walk' = 0
                  /\ attempt' = 0
                  /\ UNCHANGED clicked_count
            [] out \in {"chain_ends", "other"} ->
                  /\ issued_on' = tab
                  /\ pc' = "w_for"
                  /\ to_walk' = to_walk - 1
                  /\ attempt' = 0
                  /\ UNCHANGED <<clicked_count, consecutive_errors>>
    /\ UNCHANGED <<max_count, total_scrolls, is_running, signals,
                   stopped_at, tab>>
    /\ UNCHANGED engine_vars

\* lines 132-138: select_public_commission(selected_tab) returns (break),
\* raises an error with a marker (raised again, counted, break) or raises
\* another error (climb, and the click loop goes on)
WorkerModal ==
    /\ pc = "w_modal"
    /\ \E out \in {"returns", "transient", "other"} :
          CASE out = "returns" ->
                  /\ pc' = "w_for"
                  /\ to_walk' = to_walk - 1
                  /\ attempt' = 0
                  /\ UNCHANGED consecutive_errors
            [] out = "transient" ->
                  /\ consecutive_errors' = consecutive_errors + 1
                  /\ pc' = "w_after"
                  /\ to_walk' = 0
                  /\ attempt' = 0
            [] out = "other" ->
                  /\ pc' = AfterAttempt(attempt).pc
                  /\ attempt' = AfterAttempt(attempt).attempt
                  /\ to_walk' = to_walk - AfterAttempt(attempt).walked
                  /\ UNCHANGED consecutive_errors
    /\ issued_on' = tab
    /\ UNCHANGED <<max_count, clicked_count, total_scrolls, is_running,
                   signals, stopped_at, tab>>
    /\ UNCHANGED engine_vars

\* lines 151-152: after the for loop, the target check, then the scroll
WorkerAfterBatch ==
    /\ pc = "w_after"
    /\ pc' = IF TargetReached(clicked_count, max_count) THEN "w_emit"
             ELSE "w_scroll"
    /\ UNCHANGED <<max_count, clicked_count, total_scrolls,
                   consecutive_errors, tab>>
    /\ UNCHANGED gui_vars
    /\ UNCHANGED engine_vars

\* line 169: self.finished_signal.emit(clicked_count), and run returns
WorkerFinish ==
    /\ pc = "w_emit"
    /\ signals' = Append(signals, finished_signal(clicked_count))
    /\ pc' = "w_returned"
    /\ UNCHANGED <<max_count, clicked_count, total_scrolls,
                   consecutive_errors, is_running, to_walk, attempt,
                   stopped_at, issued_on, tab>>
    /\ UNCHANGED engine_vars

\* the steps of the worker thread
WorkerNext ==
    \/ WorkerLoopHead
    \/ WorkerReconnect
    \/ WorkerScan
    \/ WorkerScroll
    \/ WorkerNextButton
    \/ WorkerClick
    \/ WorkerModal
    \/ WorkerAfterBatch
    \/ WorkerFinish

\* the worker thread and the thread of the window, which may call stop
GuiNext ==
    \/ Stop
    \/ WorkerLoopHead
    \/ WorkerReconnect
    \/ WorkerScan
    \/ WorkerScroll
    \/ WorkerNextButton
    \/ WorkerClick
    \/ WorkerModal
    \/ WorkerAfterBatch
    \/ WorkerFinish

GuiSpec == WorkerInit /\ [][GuiNext]_vars

\* the worker is a thread of its own: it takes its next step whenever it has
\* one; nothing makes the window call stop
GuiFairSpec == GuiSpec /\ WF_vars(WorkerNext)

(* ---------------- TemplateManager ---------------- *)
\* templates a store can hold, and the largest id handed out
MaxTemplates == 3
MaxId == 4

\* contents of a template
Contents == {"hello", "offer"}

\* the ids of the templates of a store
Ids(ts) == {ts[i].id : i \in 1..Len(ts)}

\* get_next_id: 1 for a store without templates, else the largest id plus one
get_next_id(ts) ==
    IF ts = <<>> THEN 1
    ELSE (CHOOSE m \in Ids(ts) : \A k \in Ids(ts) : k <= m) + 1

\* the menu of the program is open on the store of a new installation
StoreInit ==
    /\ NoWorker
    /\ NoStore
    /\ scan_out = "none"
    /\ stable = TRUE
    /\ pc = "menu"
    /\ max_count = 0
    /\ clicked_count = 0
    /\ total_scrolls = 0
    /\ consecutive_errors = 0
    /\ pending_batch_buttons = 0
    /\ total_detected_buttons = 0
    /\ page = EmptyBag
    /\ available_buttons = EmptyBag
    /\ newly_counted = 0
    /\ should_scroll_after_batch = FALSE
    /\ tab = 0
    /\ rc = NoRc
    /\ exit = "none"
    /\ pending_at_scan = 0
    /\ batch_clicks = 0
    /\ batch_size = 0
    /\ batch_marks_ok = TRUE
    /\ notifications = <<>>
    /\ last_error = "none"
    /\ all_succeeded = TRUE
    /\ no_control_seen = TRUE
    /\ modal = NoModal

\* what the operations of the store leave alone
not_store_vars == <<pc, max_count, clicked_count, total_scrolls,
                    consecutive_errors, pending_batch_buttons,
                    total_detected_buttons, page, available_buttons,
                    newly_counted, should_scroll_after_batch, tab, rc, exit,
                    pending_at_scan, batch_clicks, batch_size,
                    batch_marks_ok, notifications, last_error, all_succeeded,
                    no_control_seen, modal, scan_out, stable>>

\* save_all(data): the data are stored, or the store stays as it was
save_all(ts, active, saved) ==
    /\ templates' = IF saved THEN ts ELSE templates
    /\ active_template_id' = IF saved THEN active ELSE active_template_id

\* lines 166-181: add_template(name, content, activate)
add_template ==
    /\ pc = "menu"
    /\ Len(templates) < MaxTemplates
    /\ get_next_id(templates) <= MaxId
    /\ \E content \in Contents, activate \in BOOLEAN, saved \in BOOLEAN :
          LET new_id == get_next_id(templates) IN
          save_all(Append(templates, [id |-> new_id, content |-> content]),
                   IF activate THEN new_id ELSE active_template_id,
                   saved)
    /\ UNCHANGED not_store_vars
    /\ UNCHANGED gui_vars

\* lines 183-197: update_template(template_id, content=content); an id that
\* is not in the store changes nothing
update_template ==
    /\ pc = "menu"
    /\ \E template_id \in 1..MaxId, content \in Contents, saved \in BOOLEAN :
          /\ template_id \in Ids(templates)
          /\ save_all([i \in 1..Len(templates) |->
                          IF templates[i].id = template_id
                          THEN [templates[i] EXCEPT !.content = content]
                          ELSE templates[i]],
                      active_template_id, saved)
    /\ UNCHANGED not_store_vars
    /\ UNCHANGED gui_vars

\* the templates but the one with the id
Without(ts, template_id) ==
    SelectSeq(ts, LAMBDA t : t.id # template_id)

\* line 203: if len(data['templates']) <= 1: return False
CanDelete(ts) == Len(ts) > 1

\* lines 199-212: delete_template(template_id)
delete_template ==
    /\ pc = "menu"
    /\ CanDelete(templates)
    /\ \E template_id \in 1..MaxId, saved \in BOOLEAN :
          LET rest == Without(templates, template_id) IN
          save_all(rest,
                   IF template_id = active_template_id /\ rest # <<>>
                   THEN rest[1].id ELSE active_template_id,
                   saved)
    /\ UNCHANGED not_store_vars
    /\ UNCHANGED gui_vars

\* lines 214-222: set_active(template_id), for any id
set_active ==
    /\ pc = "menu"
    /\ \E template_id \in 1..MaxId, saved \in BOOLEAN :
          save_all(templates, template_id, saved)
    /\ UNCHANGED not_store_vars
    /\ UNCHANGED gui_vars

StoreNext ==
    \/ add_template
    \/ update_template
    \/ delete_template
    \/ set_active

StoreSpec == StoreInit /\ [][StoreNext]_vars

(***************************************************************************)
(* Properties                                                              *)
(***************************************************************************)

\* C1: in every state of a run started with max_count >= 0,
\* 0 <= clicked_count <= max_count and pending_batch_buttons >= 0
BoundInvariants ==
    /\ 0 <= clicked_count
    /\ clicked_count <= max_count
    /\ pending_batch_buttons >= 0

\* the target is reached while counted buttons are still pending
BoundInvariantsWitness ==
    /\ max_count >= 2
    /\ clicked_count = max_count
    /\ pending_batch_buttons >= 1

\* C2: every run of the main loop terminates, whatever the page and the
\* session do
Termination == <>(pc = "done")

\* C3: no step of the engine clears or downgrades a marker: the buttons of
\* the page after a step are the buttons before it, each with the markers it
\* had and possibly more (for every upward-closed set of marker pairs the
\* number of buttons in it does not decrease)
MarkerMonotonicity ==
    [][/\ page'[B11] >= page[B11]
       /\ page'[B11] + page'[B01] >= page[B11] + page[B01]
       /\ page'[B11] + page'[B10] >= page[B11] + page[B10]
       /\ page'[B11] + page'[B10] + page'[B01]
              >= page[B11] + page[B10] + page[B01]]_vars

\* a counted button has been clicked and marked while another is still counted
MarkerMonotonicityWitness ==
    /\ page[B11] >= 1
    /\ page[B10] >= 1
    /\ page[B00] >= 1

\* C4: when send_proposals has returned, the target is reached, the scrolls
\* are used up or the reconnect has failed; on the exits taken because the
\* target is reached clicked_count is exactly max_count
ExitConditions ==
    pc = "done" =>
        /\ \/ clicked_count >= max_count
           \/ total_scrolls >= max_scrolls
           \/ exit = "fatal"
        /\ exit \in {"target_return", "target_break"} =>
               clicked_count = max_count

\* the run has returned from inside the batch with a target of at least 2
ExitConditionsWitness ==
    /\ pc = "done"
    /\ exit = "target_return"
    /\ max_count >= 2
    /\ total_scrolls < max_scrolls

\* C5: a page scroll is only issued while pending_batch_buttons is 0
ScrollOnlyWhenDrained == pc = "scroll" => pending_batch_buttons = 0

\* a scroll is about to be issued after clicks on counted buttons
ScrollOnlyWhenDrainedWitness ==
    /\ pc = "scroll"
    /\ clicked_count >= 2
    /\ total_detected_buttons >= 2

\* the batch of one scan: exactly 3 available buttons, all of them newly
\* counted, with more than 3 clicks left before the target
BatchOfThree ==
    /\ pc \in {"batch", "after"}
    /\ newly_counted = 3
    /\ batch_size = 3
    /\ max_count - (clicked_count - batch_clicks) > 3

\* the batch as the contract describes it: 3 newly counted buttons, a target
\* above 3, and no marker write has failed
BatchAsStated ==
    /\ pc \in {"batch", "after"}
    /\ newly_counted = 3
    /\ batch_size = 3
    /\ max_count > 3
    /\ batch_marks_ok

ScrollGatingStep ==
    /\ batch_clicks = 2 =>
           pending_batch_buttons = 1 /\ pc' # "scroll"
    /\ batch_clicks = 3 =>
           pending_batch_buttons = 0 /\ (pc = "after" => pc' = "scroll")

\* C6 as stated: after 2 clicks of a batch of 3 newly counted buttons one is
\* pending and the loop does not scroll, after the 3rd none is pending and the
\* loop scrolls when the batch is done
ScrollGatingAsStated == [][BatchAsStated => ScrollGatingStep]_vars

\* C6 amended: the same, for a scan that started with pending_batch_buttons = 0
\* and with more than 3 clicks left before the target
ScrollGating ==
    [][BatchOfThree /\ pending_at_scan = 0 => ScrollGatingStep]_vars

\* the 3 buttons of such a batch have been clicked and the batch is done
ScrollGatingWitness ==
    /\ BatchOfThree
    /\ pending_at_scan = 0
    /\ batch_clicks = 3
    /\ pc = "after"

\* the clicked buttons of the page, any of which the scans may have seen
ClickedButtons == [b \in Buttons |-> IF IsClicked(b) THEN page[b] ELSE 0]

\* a second scan of the same buttons (the available ones with the markers
\* they have now, and seen clicked ones) counts nothing, whichever of its
\* marker writes fail
SecondScanCountsNothing ==
    \A seen \in SubBags(ClickedButtons) :
    \A wfail \in 0..available_buttons[B00] :
        LET same == [b \in Buttons |-> available_buttons[b] + seen[b]]
            r == ScanResult(page, pending_batch_buttons,
                            total_detected_buttons, same, wfail)
        IN  /\ r.newly = 0
            /\ r.pending = pending_batch_buttons
            /\ r.detected = total_detected_buttons
            /\ r.available = available_buttons

ReconnectBounded ==
    pc = "reconnected" =>
        /\ rc.attempts \in 1..3
        /\ \A j \in 1..(rc.attempts - 1) : rc.outs[j] # "ok"
        /\ rc.ok => rc.outs[rc.attempts] = "ok" /\ tab # rc.before
        /\ ~rc.ok => rc.attempts = 3 /\ rc.outs[3] # "ok"

\* reconnect has succeeded at its last attempt
ReconnectBoundedWitness ==
    /\ pc = "reconnected"
    /\ rc.ok
    /\ rc.attempts = 3

\* C10: when reconnect has failed the run ends at once, and the only step
\* after that is the return to the caller
FatalAborts ==
    [][/\ (pc = "reconnected" /\ ~rc.ok) => (pc' = "done" /\ exit' = "fatal")
       /\ exit = "fatal" => (pc = "done" /\ pc' = "returned")]_vars

\* the run has ended on a failed reconnect after some clicks
FatalAbortsWitness ==
    /\ exit = "fatal"
    /\ pc = "done"
    /\ clicked_count >= 1

\* C11: when the reconnect attempts are used up, the run has called the
\* notification sink exactly once, with a failure message
FatalNotifiesFailure ==
    (exit = "fatal" /\ pc \in {"done", "returned"}) =>
        /\ Len(notifications) = 1
        /\ notifications[1].kind = "failure"

\* the run of the end-to-end scenario is over: the page held two buttons, every
\* scan returned them, every click went through and every modal completed
EndToEndRunOver ==
    /\ pc = "returned"
    /\ max_count = 2
    /\ BagSize(page) = 2
    /\ all_succeeded

\* C12: the run of the end-to-end scenario ends with clicked_count = 2 and no
\* scroll, and the notification sink has been called exactly once, with a
\* success message that carries the count 2
EndToEndSuccess ==
    EndToEndRunOver =>
        /\ exit \in {"target_return", "target_break"}
        /\ clicked_count = 2
        /\ total_scrolls = 0
        /\ notifications = <<[kind |-> "success", count |-> 2]>>

\* C13: a run whose scans never return a button and whose scrolls all succeed
\* comes to its end, and has then clicked nothing and scrolled exactly
\* max_scrolls times
ExhaustionRun ==
    /\ []((pc \in {"done", "returned"} /\ no_control_seen) =>
              /\ exit = "exhausted"
              /\ clicked_count = 0
              /\ total_scrolls = max_scrolls)
    /\ <>(~no_control_seen \/ pc = "done")

\* such a run has ended
ExhaustionRunWitness ==
    /\ pc = "done"
    /\ no_control_seen
    /\ exit = "exhausted"
    /\ total_scrolls = max_scrolls

\* C14: consecutive_errors is incremented only on a failure whose message
\* carries one of the markers disconnect, context, target closed
OnlyTransientCounted ==
    [][consecutive_errors' > consecutive_errors =>
           last_error' = "transient"]_vars

\* the steps of the workflow that have run
StepsRun == {modal.steps[i] : i \in 1..Len(modal.steps)}

\* _select_template_term has returned False (template_term_not_found)
TermNotFound == "SelectTerm" \in modal.failed

\* the first suggestion has been compared with the typed text and differs
TagMismatched == modal.compared /\ "SelectCategoryTag" \in modal.failed

\* C15: a term that is not found or a category that does not match aborts the
\* item only: consecutive_errors is as before and the loop goes on with the
\* next button of the batch
HardErrorAbortsItemOnly ==
    (modal.step = "handled" /\ (TermNotFound \/ TagMismatched)) =>
        /\ consecutive_errors = 0
        /\ pc = "batch"
        /\ BagSize(available_buttons) = 1

\* C16: when SelectTerm has read the options of the dropdown and none matches
\* the desired term, no option is selected and no later step runs
NoMatchIsHardError ==
    (/\ "SelectTerm" \in StepsRun
     /\ modal.read
     /\ modal.options # <<>>
     /\ Len(MatchIndices(modal.term, modal.options)) = 0) =>
        /\ modal.via = "none"
        /\ modal.selected = 0
        /\ StepsRun \subseteq {"AwaitSurface", "SelectTerm"}

\* the first suggestion, without its count and its spaces, differs from the
\* typed category text when case is ignored
SuggestionDiffers ==
    LowerText(RemoveSpaces(StripCount(modal.suggestion)))
        # LowerText(RemoveSpaces(modal.tab))

\* C17: when the first suggestion differs from the typed category text, the
\* suggestion is not clicked and Submit is not triggered for the item
TagMismatchAborts ==
    (modal.compared /\ SuggestionDiffers) =>
        /\ ~modal.suggestion_clicked
        /\ ~modal.submitted
        /\ "Submit" \notin StepsRun

\* an item has been handled whose suggestion differed
TagMismatchAbortsWitness ==
    /\ modal.step = "handled"
    /\ modal.compared
    /\ SuggestionDiffers
    /\ modal.tab = <<"Ads">>

\* the options whose normalized text equals the normalized desired term
EqualIndices ==
    {i \in 1..Len(modal.options) :
        NormTerm(modal.options[i]) = NormTerm(Desired(modal.term))}

\* C18 as stated: when SelectTerm has read the dropdown and exactly one
\* option equals the desired term after normalization, that option is
\* selected and the operator is not asked, whatever the other options
AutoSelectOnEqualAsStated ==
    (/\ "SelectTerm" \in StepsRun
     /\ modal.read
     /\ Cardinality(EqualIndices) = 1) =>
        /\ modal.via = "match"
        /\ modal.selected \in EqualIndices
        /\ ~modal.prompted

\* C18 amended: the same when exactly one option matches, an option matching
\* when its normalized text equals the normalized desired term, contains it
\* or is contained in it
AutoSelectOnSingleMatch ==
    (/\ "SelectTerm" \in StepsRun
     /\ modal.read
     /\ Len(MatchIndices(modal.term, modal.options)) = 1) =>
        /\ modal.via = "match"
        /\ modal.selected = MatchIndices(modal.term, modal.options)[1]
        /\ ~modal.prompted

\* "Public Terms" has been selected among "Public Terms (N)" and
\* "Ulanzi Terms (N)"
AutoSelectOnSingleMatchWitness ==
    /\ modal.step = "handled"
    /\ modal.term = <<"Public", "sp", "Terms">>
    /\ modal.options = << <<"Public", "sp", "Terms", "sp", "(N)">>,
                          <<"Ulanzi", "sp", "Terms", "sp", "(N)">> >>
    /\ modal.read
    /\ modal.via = "match"
    /\ modal.selected = 1
    /\ modal.submitted

\* C19: when SelectTerm has read the dropdown and more than one option
\* matches, an option is selected only if the operator has chosen one, and
\* then the chosen one; with no choice nothing is selected
AmbiguityNeverGuessed ==
    (/\ "SelectTerm" \in StepsRun
     /\ modal.read
     /\ Len(MatchIndices(modal.term, modal.options)) > 1) =>
        IF modal.answer > 0
        THEN /\ modal.via = "operator"
             /\ modal.selected =
                    MatchIndices(modal.term, modal.options)[modal.answer]
        ELSE /\ modal.via = "none"
             /\ modal.selected = 0

\* C20: when a step of the workflow has raised an error with a marker, the
\* workflow raises it to the loop, no later step has run, and the loop has
\* incremented consecutive_errors
TransientPropagates ==
    modal.step = "handled" =>
        \A st \in modal.transient_in :
            /\ modal.result = "transient"
            /\ modal.steps[Len(modal.steps)] = st
            /\ consecutive_errors = 1

\* C21: when the modal iframe has not appeared before the deadline, no later
\* step of the workflow runs for the item, consecutive_errors is as before
\* and the loop goes on with the next button of the batch
ModalTimeoutAbortsItem ==
    (modal.step # "idle" /\ "AwaitSurface" \in modal.failed) =>
        /\ modal.steps = <<"AwaitSurface">>
        /\ ~modal.submitted
        /\ modal.result = "item_aborted"
        /\ modal.step = "handled" =>
               /\ consecutive_errors = 0
               /\ pc = "batch"
               /\ BagSize(available_buttons) = 1

\* the loop has taken back an item whose iframe did not appear
ModalTimeoutAbortsItemWitness ==
    /\ modal.step = "handled"
    /\ "AwaitSurface" \in modal.failed
    /\ pc = "batch"

\* C22: a date that is not selected or a comment that is not filled does not
\* stop the item: every later step runs, Submit among them, and the workflow
\* returns as completed
SoftErrorsContinue ==
    modal.step \in {"returned", "handled"} =>
        /\ "SelectDate" \in modal.failed =>
               /\ {"FillComment", "Submit"} \subseteq StepsRun
               /\ modal.result = "done"
        /\ "FillComment" \in modal.failed =>
               /\ "Submit" \in StepsRun
               /\ modal.result = "done"

\* an item has been submitted although neither its date nor its comment
\* could be set
SoftErrorsContinueWitness ==
    /\ modal.step = "handled"
    /\ {"SelectDate", "FillComment"} \subseteq modal.failed
    /\ modal.submitted

\* C23: a run started through _start_send_proposals has called the
\* notification sink exactly once when it is over, whichever way it ended
NotifiedOncePerRun ==
    pc = "returned" => Len(notifications) = 1

\* what a scan of the buttons vis returns, with the first wfail marker
\* writes failing: no button marked as clicked, and every other button of vis
ScanReturnsEligible(vis, wfail) ==
    LET r == ScanResult(page, pending_batch_buttons, total_detected_buttons,
                        vis, wfail)
        nfail == IF wfail < vis[B00] THEN wfail ELSE vis[B00]
    IN  /\ r.available[B01] = 0
        /\ r.available[B11] = 0
        /\ r.available[B00] = nfail
        /\ r.available[B10] = vis[B10] + (vis[B00] - nfail)

\* C24: a scan returns the buttons it sees whose clicked marker is not set,
\* all of them (counted before, newly counted, or with a counted marker that
\* could not be written) and no other; no button whose clicked marker is set
\* is among the buttons the loop walks and clicks
ScanEligibility ==
    /\ available_buttons[B01] = 0
    /\ available_buttons[B11] = 0
    /\ pc = "scan" =>
           \A vis \in SubBags(page) : \A wfail \in 0..vis[B00] :
               ScanReturnsEligible(vis, wfail)

\* a scan has left out a clicked button and returned a counted one and one
\* whose counted marker could not be written
ScanEligibilityWitness ==
    /\ pc = "scanned"
    /\ page[B11] >= 1
    /\ available_buttons[B10] >= 1
    /\ available_buttons[B00] >= 1
    /\ clicked_count >= 1

\* C25: send_proposals returns the number of items for which the workflow
\* has clicked the submit button (here the run has clicked one item)
ReturnsSubmitCount ==
    pc \in {"done", "returned"} =>
        clicked_count = IF modal.submitted THEN 1 ELSE 0

\* the buttons of the page that carry the clicked marker
MarkedClicked(pg) == pg[B01] + pg[B11]

\* C27: a click that goes through adds 1 to clicked_count, writes the clicked
\* marker of the button and takes 1 from pending_batch_buttons unless it is
\* 0; a step of the for loop without such a click leaves clicked_count,
\* pending_batch_buttons and the markers alone
ClickEffects ==
    [][/\ clicked_count' = clicked_count + 1 =>
              /\ pc = "batch"
              /\ MarkedClicked(page') = MarkedClicked(page) + 1
              /\ page'[B00] + page'[B10] = page[B00] + page[B10] - 1
              /\ pending_batch_buttons' =
                     IF pending_batch_buttons = 0 THEN 0
                     ELSE pending_batch_buttons - 1
       /\ (pc = "batch" /\ clicked_count' # clicked_count + 1) =>
              /\ clicked_count' = clicked_count
              /\ pending_batch_buttons' = pending_batch_buttons
              /\ page' = page]_vars

\* C28: the click loop makes at most 10 attempts for a button; when no
\* attempt has gone through and no error with a marker was raised, the loop
\* goes on with the next button of the batch and consecutive_errors is as
\* before
GiveUpIsNonFatal ==
    [][/\ \A anc \in Depths, nfail \in FailCounts, k \in SoftKinds,
             final \in {"ok", "transient"} :
              ClickLoop(0, anc, nfail, k, final).attempts <= 10
       /\ (/\ pc = "batch"
           /\ BagSize(available_buttons) > 0
           /\ ~TargetReached(clicked_count, max_count)
           /\ clicked_count' = clicked_count
           /\ last_error' # "transient") =>
              /\ consecutive_errors' = consecutive_errors
              /\ pc' = "batch"
              /\ BagSize(available_buttons') = BagSize(available_buttons) - 1
      ]_vars

\* C30: a scan that finds available buttons, a click that goes through and a
\* scroll that succeeds each leave consecutive_errors at 0
ErrorsResetOnSuccess ==
    [][/\ (pc = "scanned" /\ BagSize(available_buttons) > 0) =>
              consecutive_errors' = 0
       /\ (clicked_count' = clicked_count + 1 /\ last_error' = "none") =>
              consecutive_errors' = 0
       /\ total_scrolls' = total_scrolls + 1 =>
              consecutive_errors' = 0]_vars

(* the order of the steps of the workflow *)
StepOrder ==
    <<"AwaitSurface", "SelectTerm", "SelectCategoryTag", "SelectDate",
      "FillComment", "Submit", "AcknowledgeDisclaimer">>

Rank(name) == CHOOSE i \in 1..Len(StepOrder) : StepOrder[i] = name

\* C29: the steps of the workflow of an item run in the order AwaitSurface,
\* SelectTerm, SelectCategoryTag, SelectDate, FillComment, Submit,
\* AcknowledgeDisclaimer, each at most once and SelectCategoryTag only with
\* a category label; Submit runs only after SelectTerm has succeeded, and
\* AcknowledgeDisclaimer only after the submit button was clicked
WorkflowOrder ==
    modal.step # "idle" =>
        /\ \A i \in 1..(Len(modal.steps) - 1) :
               Rank(modal.steps[i]) < Rank(modal.steps[i + 1])
        /\ modal.steps # <<>> => modal.steps[1] = "AwaitSurface"
        /\ "SelectCategoryTag" \in StepsRun => modal.tab # <<>>
        /\ "Submit" \in StepsRun =>
               /\ "SelectTerm" \in StepsRun
               /\ "SelectTerm" \notin modal.failed
        /\ "AcknowledgeDisclaimer" \in StepsRun => modal.submitted

\* the click-and-modal sequence of a button is under way
InFlight == pc \in {"w_item", "w_modal"}

\* C26: once stop() has set the flag the worker starts the click sequence of
\* no further button; a sequence that is under way goes on to its own end (a
\* click that goes through is followed by the modal step, and the sequence
\* is left only for the for loop or the code after it); and the worker comes
\* to its end and emits finished_signal with the clicked_count it has reached
CooperativeCancellation ==
    /\ [][/\ ((~is_running /\ pc' = "w_item") => InFlight)
           /\ (InFlight => pc' \in {"w_item", "w_modal", "w_for", "w_after"})
           /\ ((pc = "w_item" /\ clicked_count' = clicked_count + 1) =>
                  pc' = "w_modal")]_vars
    /\ [](pc = "w_returned" =>
              signals[Len(signals)] = finished_signal(clicked_count))
    /\ (~is_running ~> pc = "w_returned")

\* stop() was called while the modal step of a button was under way, and the
\* worker has ended before its target and before its last scroll
CooperativeCancellationWitness ==
    /\ pc = "w_returned"
    /\ stopped_at = "w_modal"
    /\ clicked_count >= 1
    /\ clicked_count < max_count
    /\ total_scrolls < max_scrolls

\* C31: a locator that matches nothing (ElementNotFoundError) never leaves
\* find_element or find_elements as an exception: the one gives None and the
\* other the empty list, whatever the page holds; and the scan that got the
\* empty list has no available button, counts nothing and starts no batch
AbsenceNeverEscapes ==
    /\ \A found \in SubBags(page) :
          /\ find_elements("ElementNotFoundError", found) =
                 [raised |-> FALSE, value |-> EmptyBag]
          /\ find_element("ElementNotFoundError", "element") =
                 [raised |-> FALSE, value |-> "None"]
    /\ (pc = "scanned" /\ scan_out = "ElementNotFoundError") =>
          /\ available_buttons = EmptyBag
          /\ batch_size = 0
          /\ newly_counted = 0
          /\ pending_batch_buttons = pending_at_scan

\* a scan whose locator matched nothing on a page that holds buttons to
\* click, with a count pending from an earlier scan
AbsenceNeverEscapesWitness ==
    /\ pc = "scanned"
    /\ scan_out = "ElementNotFoundError"
    /\ page[B10] > 0
    /\ pending_batch_buttons > 0

\* C32: a scan whose element query failed with a disconnect, context-lost or
\* target-closed error adds one to consecutive_errors and leads to no scroll
DisconnectedScanCounts ==
    [][(pc = "scanned" /\ scan_out \in Disconnects) =>
          /\ consecutive_errors' = consecutive_errors + 1
          /\ pc' # "scroll"]_vars

\* the workflow has submitted and has run AcknowledgeDisclaimer
Acknowledged == modal.step \in {"returned", "handled"} /\ modal.submitted

\* C33: AcknowledgeDisclaimer finds and clicks a confirmation button that is
\* only in the parent page (when no lookup raises), and with no button in
\* the modal surface or the page it clicks nothing and the item is completed
AcknowledgeFallsBack ==
    Acknowledged =>
       /\ (modal.ack.out = "elements" /\ modal.ack.in_page) =>
              modal.ack.clicked
       /\ (~modal.ack.in_iframe /\ ~modal.ack.in_page) =>
              ~modal.ack.clicked /\ modal.result = "done"

\* a step of the worker that issues a page operation: the scan, a scroll, an
\* attempt of the click loop, the modal step
PageOperation == WorkerScan \/ WorkerScroll \/ WorkerClick \/ WorkerModal

\* C34: every page operation of the worker goes to the session that is the
\* current one when it is issued, so that after a reconnect none goes to the
\* session that was replaced
SessionReplaced == [][PageOperation => issued_on' = tab]_vars

\* a call of the sink at the completion of the run raises
SinkRaises == BatchTargetSinkRaises \/ FinalNotifyRaises

\* C35: a failure of the sink at the completion of the run stays in the
\* sink: send_proposals returns clicked_count as it would have (pc "done"),
\* no error is counted for it, and the run is never reported as failed
SinkIsFireAndForget ==
    /\ [][SinkRaises =>
             pc' = "done" /\ consecutive_errors' = consecutive_errors]_vars
    /\ [](pc # "failed")

\* C36: no button is clicked twice in a run, so clicked_count is the number
\* of distinct buttons clicked and cannot exceed the number of buttons of
\* the page
NoDoubleClick == clicked_count <= BagSize(page)

\* C37: consecutive_errors never exceeds max_consecutive_errors
ErrorsBounded ==
    consecutive_errors >= 0 /\ consecutive_errors <= max_consecutive_errors

\* the counter is at the threshold at the top of the loop, after a failed
\* scroll has added the last error
ErrorsBoundedWitness ==
    /\ pc = "top"
    /\ consecutive_errors = max_consecutive_errors
    /\ last_error = "scroll"

\* C38: as long as no scan has missed a button of the page and no marker
\* write has failed, pending_batch_buttons at the top of the loop is the
\* number of buttons counted and not yet clicked
PendingTracksCounted ==
    (pc = "top" /\ stable) => pending_batch_buttons = page[B10]

\* C39: a worker that has ended has emitted exactly one terminal signal,
\* finished_signal or error_signal
OneTerminalSignal == pc = "w_returned" => Len(signals) = 1

\* C40: whenever the store holds a template, active_template_id is the id of
\* one of its templates; and no operation takes the last template away
ActiveTemplatePresent ==
    /\ [](templates # <<>> => active_template_id \in Ids(templates))
    /\ [][templates # <<>> => templates' # <<>>]_vars

====
